---- MODULE Spec2Model ----
(***************************************************************************)
(* Model of the comment extraction and selective-removal pipeline of       *)
(* preprocessing/comment_extractor.py (extract_strip_cry_comments), and of *)
(* the components around it: the key-value cache (util/file_kv_cache.py),  *)
(* the line-comment stripper (preprocessing/dataset_builder.py), the retry *)
(* wrapper (preprocessing/text_agent.py) and the token chunker             *)
(* (preprocessing/tokenize_qwen.py).  Each component has its own           *)
(* specification; the variables of the others stay as they start.          *)
(*                                                                         *)
(* Texts are sequences of one-character strings.  Offsets are Python's:    *)
(* 0-based, slices half-open, so content[a:b] is SubSeq(content, a+1, b).  *)
(***************************************************************************)
EXTENDS Integers, Sequences, FiniteSets, TLC

VARIABLES
    content,      \* the document handed to extract_strip_cry_comments
    llm_buffer_size, \* the batch cap of this call
    file,         \* the decision cache file: the sequence of its lines
    decisions,    \* the in-memory index: a function fingerprint -> BOOLEAN
    spans,        \* _collect_spans(content)
    i,            \* index (0-based) of the span the for loop is at
    idx,          \* the rewriter's cursor into content
    out_parts,    \* the output built so far ("".join(out_parts))
    comments,     \* the comment records appended so far
    pending,      \* the buffered, undecided records
    ctx,          \* the enclosing function's variable ctx (last computed context)
    pc,           \* "entry": called, before the cache is loaded and the spans
                  \* are detected; "loop": in the for loop; "done": the call
                  \* returned; "raised": an exception left the call; "idle": not
                  \* called
    new_content,  \* file_record["content"] once the call returned
    run,          \* 1 for the first call, 2 for the call that follows it
    requests,     \* what the oracle was sent during this call: a sequence of batches
    writes,       \* history: every <<fingerprint, keep, by>> written to the index or
                  \* the log; by is "oracle", "default" or "earlier" (an earlier run)
    first,        \* what the first call was given and what it returned
    synced,       \* how many leading lines of the decision cache file have been
                  \* forced to stable storage (fsync)
    ld,           \* a load of a decision cache file: its lines, where the load is
                  \* and the index it built
    kv,           \* a FileKVCache: its file, its index, the calls of get_or_call
                  \* whose fn is running, the set that waits for os.fsync
                  \* ("syncing") and the last call that returned
    ls,           \* a call of strip_cryptol_line_comments_only: its locals
    rt,           \* a call of call_with_retry: its locals and the calls of func
    ck,           \* a run of the generator chunk_token_ids: its locals, its yields
                  \* and where it is ("yielded": suspended at the yield)
    im            \* a call of minimize_imports: the locals of split_import_blocks
                  \* and of the removal loop

\* the variables of extract_strip_cry_comments and its callers
pipeline == <<content, llm_buffer_size, file, decisions, spans, i, idx, out_parts,
              comments, pending, ctx, pc, new_content, run, requests, writes, first,
              synced>>

vars == <<pipeline, ld, kv, ls, rt, ck, im>>

---------------------------------------------------------------------------
(* Characters *)

LF == "\n"
CR == "\r"
SP == " "
TAB == "\t"
SLASH == "/"
STAR == "*"

FF == "\f"
VT == ""
FS == ""
GS == ""
RS == ""
US == ""
NEL == ""
NBSP == " "
OGHAM == " "

\* the characters that str.isspace() is true for, as far as a string of the
\* model can hold them: what str.strip() strips and what \s matches in a str
\* pattern.  The 16 remaining ones (U+2000 to U+200A, U+2028, U+2029, U+202F,
\* U+205F, U+3000) cannot be written in a string of this language, so no
\* text of the model contains them.
WhiteSpace == {TAB, LF, VT, FF, CR, FS, GS, RS, US, SP, NEL, NBSP, OGHAM}

\* str.isspace()
IsSpace(c) == c \in WhiteSpace

Min(S) == CHOOSE x \in S : \A y \in S : x <= y
Max(S) == CHOOSE x \in S : \A y \in S : x >= y

\* content[a:b]
Slice(text, a, b) == SubSeq(text, a + 1, b)

\* text.find(ch, from): the least index >= from holding ch, or -1
Find(text, ch, from) ==
    LET hits == {p \in from..(Len(text) - 1) : text[p + 1] = ch}
    IN  IF hits = {} THEN -1 ELSE Min(hits)

\* text.rfind(ch, 0, to): the greatest index < to holding ch, or -1
RFind(text, ch, to) ==
    LET hits == {p \in 0..(to - 1) : text[p + 1] = ch}
    IN  IF hits = {} THEN -1 ELSE Max(hits)

\* text.strip() == ""
StripIsEmpty(text) == \A p \in 1..Len(text) : IsSpace(text[p])

\* the two characters a, b stand at offsets p, p+1
TwoAt(text, p, a, b) ==
    /\ p >= 0
    /\ p + 2 <= Len(text)
    /\ text[p + 1] = a
    /\ text[p + 2] = b

---------------------------------------------------------------------------
(* The regular expressions *)

\* LINE_RE_CRY = //[^\n]*  : finditer from offset pos, leftmost matches, non-overlapping
RECURSIVE LINE_RE_CRY(_, _)
LINE_RE_CRY(text, pos) ==
    LET starts == {p \in pos..(Len(text) - 2) : TwoAt(text, p, SLASH, SLASH)}
    IN  IF starts = {} THEN <<>>
        ELSE LET s  == Min(starts)
                 nl == Find(text, LF, s)
                 e  == IF nl = -1 THEN Len(text) ELSE nl
             IN  <<<<s, e, "line">>>> \o LINE_RE_CRY(text, e)

\* the end of the lazy match  (.*?)\*/  begun at offset from, or -1
LazyClose(text, from) ==
    LET qs == {q \in from..(Len(text) - 2) : TwoAt(text, q, STAR, SLASH)}
    IN  IF qs = {} THEN -1 ELSE Min(qs) + 2

\* BLOCK_RE_CRY = /\*(?!\*)(.*?)\*/ with re.S matches at offset p
BlockMatchAt(text, p) ==
    /\ TwoAt(text, p, SLASH, STAR)
    /\ ~(p + 3 <= Len(text) /\ text[p + 3] = STAR)
    /\ LazyClose(text, p + 2) # -1

RECURSIVE BLOCK_RE_CRY(_, _)
BLOCK_RE_CRY(text, pos) ==
    LET starts == {p \in pos..(Len(text) - 2) : BlockMatchAt(text, p)}
    IN  IF starts = {} THEN <<>>
        ELSE LET s == Min(starts)
                 e == LazyClose(text, s + 2)
             IN  <<<<s, e, "block">>>> \o BLOCK_RE_CRY(text, e)

\* DOC_RE_CRY = /\*\*.*?\*/ with re.S matches at offset p
DocMatchAt(text, p) ==
    /\ TwoAt(text, p, SLASH, STAR)
    /\ p + 3 <= Len(text)
    /\ text[p + 3] = STAR
    /\ LazyClose(text, p + 3) # -1

\* DOC_RE_CRY.sub("", text), scanning from offset pos
RECURSIVE DOC_RE_CRY_sub(_, _)
DOC_RE_CRY_sub(text, pos) ==
    LET starts == {p \in pos..(Len(text) - 3) : DocMatchAt(text, p)}
    IN  IF starts = {} THEN Slice(text, pos, Len(text))
        ELSE LET s == Min(starts)
                 e == LazyClose(text, s + 3)
             IN  Slice(text, pos, s) \o DOC_RE_CRY_sub(text, e)

\* a test that takes any white space for one line break, blank lines
\* included (what C24 rules out)
AdjacentBreak_AnyWhiteSpace(between) ==
    /\ between # <<>>
    /\ \A p \in 1..Len(between) : IsSpace(between[p])

\* re.fullmatch(r"\r?\n[ \t]*", between)
AdjacentBreak(between) ==
    LET n    == Len(between)
        from == IF n >= 1 /\ between[1] = CR THEN 2 ELSE 1
    IN  /\ n >= from
        /\ between[from] = LF
        /\ \A p \in (from + 1)..n : between[p] \in {SP, TAB}

---------------------------------------------------------------------------
(* _collect_spans *)

\* spans.sort(key=start): a stable sort of the block matches followed by the
\* line matches; both lists are ascending, so this is their stable merge
RECURSIVE SortByStart(_, _)
SortByStart(blocks, lines) ==
    IF blocks = <<>> THEN lines
    ELSE IF lines = <<>> THEN blocks
    ELSE IF Head(blocks)[1] <= Head(lines)[1]
         THEN <<Head(blocks)>> \o SortByStart(Tail(blocks), lines)
         ELSE <<Head(lines)>> \o SortByStart(blocks, Tail(lines))

\* a detector that cuts an overlapping candidate down to the part after the
\* kept span (what C23 rules out)
RECURSIVE NonOverlap_Truncates(_, _)
NonOverlap_Truncates(sorted, last_end) ==
    IF sorted = <<>> THEN <<>>
    ELSE LET t == Head(sorted)
         IN  IF t[1] >= last_end
             THEN <<t>> \o NonOverlap_Truncates(Tail(sorted), t[2])
             ELSE IF t[2] > last_end
                  THEN <<<<last_end, t[2], t[3]>>>> \o NonOverlap_Truncates(Tail(sorted), t[2])
                  ELSE NonOverlap_Truncates(Tail(sorted), last_end)

\* a detector that resolves no overlap (what C14 rules out)
NonOverlap_KeepsAll(sorted, last_end) == sorted

\* drop overlaps, keeping the earlier span
RECURSIVE NonOverlap(_, _)
NonOverlap(sorted, last_end) ==
    IF sorted = <<>> THEN <<>>
    ELSE LET t == Head(sorted)
         IN  IF t[1] >= last_end
             THEN <<t>> \o NonOverlap(Tail(sorted), t[2])
             ELSE NonOverlap(Tail(sorted), last_end)

\* the inner while loop: extend the run that ends at end_j (span number j, 1-based)
RECURSIVE ExtendRun(_, _, _, _)
ExtendRun(text, non_overlap, j, end_j) ==
    IF /\ j + 1 <= Len(non_overlap)
       /\ non_overlap[j + 1][3] = "line"
       /\ AdjacentBreak(Slice(text, end_j, non_overlap[j + 1][1]))
    THEN ExtendRun(text, non_overlap, j + 1, non_overlap[j + 1][2])
    ELSE <<j, end_j>>

\* the outer while loop, from span number k (1-based)
RECURSIVE Coalesce(_, _, _)
Coalesce(text, non_overlap, k) ==
    IF k > Len(non_overlap) THEN <<>>
    ELSE LET t == non_overlap[k]
         IN  IF t[3] # "line"
             THEN <<t>> \o Coalesce(text, non_overlap, k + 1)
             ELSE LET r == ExtendRun(text, non_overlap, k, t[2])
                  IN  <<<<t[1], r[2], "line">>>> \o Coalesce(text, non_overlap, r[1] + 1)

_collect_spans(text) ==
    Coalesce(text,
             NonOverlap(SortByStart(BLOCK_RE_CRY(text, 0), LINE_RE_CRY(text, 0)), -1),
             1)

---------------------------------------------------------------------------
(* Fingerprints and the decision cache file *)

\* _sha1: a content-addressed fingerprint.  SHA-1 is taken to be collision
\* free, so the fingerprint of a text is represented by the text itself.
_sha1(s) == s

\* A line of the cache file, by what reading the file and json.loads make of it:
\*   "record"      an object with a string "sha1" and a boolean "keep"
\*   "blank"       nothing but white space
\*   "garbage"     not JSON (json.loads raises JSONDecodeError), and not JSON
\*                 whatever is written after it
\*   "openstring"  not JSON: a JSON string that lacks its closing quote
\*   "deep"        not JSON: brackets opened and never closed, ending where a
\*                 value is expected ("[[[", or such brackets and an object
\*                 cut after a colon); room >= 1 is the number of levels
\*                 that can still be opened before the line is "toodeep"
\*   "badfield"    an object whose "sha1" or "keep" is missing or of another type
\*   "nonobject"   JSON that is not an object: a number, a string, a list, null
\*   "undecodable" bytes that are not UTF-8 (the read raises UnicodeDecodeError)
\*   "toodeep"     nested deeper than the recursion limit (RecursionError)
\*   "hugeint"     holds an integer of more than 4300 digits (ValueError)
\* eol says whether the line ends with a line break: only the last line of a
\* file can be without one (a torn write, or a file another tool wrote).
\* head is <<>>, or holds the unterminated line that this line was appended
\* to while the bytes appended have not been forced to the disk.
\* a well-formed line, as _append_decision writes it
Line(sha1, keep) ==
    [kind |-> "record", sha1 |-> sha1, keep |-> keep, eol |-> TRUE, head |-> <<>>]

\* a line of another kind; its fields are what a reader hoping for the best
\* would take from it
Malformed(kind, sha1, keep) ==
    [kind |-> kind, sha1 |-> sha1, keep |-> keep, eol |-> TRUE, head |-> <<>>]

\* a line of open brackets, room levels short of the recursion limit
Deep(room) ==
    [kind |-> "deep", sha1 |-> <<>>, keep |-> FALSE, eol |-> TRUE, head |-> <<>>,
     room |-> room]

\* the rooms of the deep lines a file starts with
MaxRoom == 5

\* json.loads fails on a deep line followed by a record, or by part of one,
\* inside the brackets, and raises RecursionError in place of JSONDecodeError
\* when fewer levels are left than the failure takes.  A whole record fails
\* on what follows its closing brace, back in the innermost bracket:
CostOfRecord == 3
\* a record cut inside a key, inside a string value or after a value fails
\* inside the object:
CostOfPart == 4
\* a record cut after a colon or inside true, false or null has opened one
\* level, the object, and fails for lack of input:
CostOfValue == 1

\* the same line without its line break
Unterminated(line) == [line EXCEPT !.eol = FALSE]

\* the kinds of line on which the load raises: only json.JSONDecodeError is
\* caught, so obj.get on a value that is not an object (AttributeError), the
\* decoding of the file, the recursion limit and the integer limit all leave
\* the call as exceptions
RaisingKinds == {"nonobject", "undecodable", "toodeep", "hugeint"}

\* the kinds that raise before the end of the line is looked at: a line of
\* such a kind stays of that kind whatever is appended to it
StickyKinds == {"undecodable", "toodeep", "hugeint"}

ReadRaises(lines) == \E k \in 1..Len(lines) : lines[k].kind \in RaisingKinds

\* _read_decision_cache: replay the lines in order, the last value per key wins;
\* a line that is blank, not JSON or without the two typed fields adds nothing
RECURSIVE _read_decision_cache(_)
_read_decision_cache(lines) ==
    IF lines = <<>> THEN <<>>
    ELSE LET n    == Len(lines)
             rest == _read_decision_cache(SubSeq(lines, 1, n - 1))
             h    == lines[n].sha1
             k    == lines[n].keep
         IN  IF lines[n].kind # "record" THEN rest
             ELSE [x \in (DOMAIN rest) \cup {h} |-> IF x = h THEN k ELSE rest[x]]

\* the line that results when the bytes of rec are written after the
\* unterminated line last: white space and a record are a record; a line that
\* raises before its end is read stays as it is; a deep line and a record
\* are too deep when the record does not fit in the room left; anything else
\* followed by a record is not JSON
GluedOnto(last, rec) ==
    IF last.kind = "blank" THEN [rec EXCEPT !.head = <<last>>]
    ELSE IF last.kind \in StickyKinds
         THEN [last EXCEPT !.eol = TRUE, !.head = <<last>>]
         ELSE IF last.kind = "deep" /\ last.room <= CostOfRecord
              THEN [rec EXCEPT !.kind = "toodeep", !.head = <<last>>]
              ELSE [rec EXCEPT !.kind = "garbage", !.head = <<last>>]

\* f.write(record + "\n") on a file opened for appending: the bytes go after
\* whatever the file ends with, a new line only when the file is empty or
\* ends with a line break
AppendBytes(lines, rec) ==
    IF lines = <<>> \/ lines[Len(lines)].eol
    THEN Append(lines, rec)
    ELSE [lines EXCEPT ![Len(lines)] = GluedOnto(@, rec)]

\* _append_decision: the record and a line break appended to the file
_append_decision(lines, sha1, keep) == AppendBytes(lines, Line(sha1, keep))

\* decisions[sha] = keep
SetDecision(dec, sha, keep) ==
    [x \in (DOMAIN dec) \cup {sha} |-> IF x = sha THEN keep ELSE dec[x]]

---------------------------------------------------------------------------
(* Context snippets *)

\* the default of the parameter context_max_chars
context_max_chars == 600

\* the length threshold of the default decision in _flush_pending
DefaultKeepBelow == 500

\* None, where the code returns an Optional[int]
None == -1

_next_span_start(sp, cur_index) ==
    LET nxt == cur_index + 1
    IN  IF 0 <= nxt /\ nxt < Len(sp) THEN sp[nxt + 1][1] ELSE None

\* re.sub(r"^\s*\n", "", snippet, count=1): the leading whitespace up to and
\* including its last line feed is removed
StripLeadingBlank(snippet) ==
    LET w   == IF StripIsEmpty(snippet) THEN Len(snippet)
               ELSE Min({p \in 1..Len(snippet) : ~IsSpace(snippet[p])}) - 1
        nls == {p \in 1..w : snippet[p] = LF}
    IN  IF nls = {} THEN snippet ELSE SubSeq(snippet, Max(nls) + 1, Len(snippet))

_make_code_context(text, after_end, next_start, max_chars) ==
    LET stop == IF next_start # None THEN next_start ELSE Len(text)
        raw  == Slice(text, after_end, stop)
        cut  == SubSeq(raw, 1, IF Len(raw) < max_chars THEN Len(raw) ELSE max_chars)
    IN  StripLeadingBlank(DOC_RE_CRY_sub(cut, 0))

---------------------------------------------------------------------------
(* The rewriter *)

_extend_end_consume_eol_if_standalone(text, s, e) ==
    LET bol     == RFind(text, LF, s) + 1
        f       == Find(text, LF, e)
        eol_idx == IF f = -1 THEN Len(text) ELSE f
        left    == Slice(text, bol, s)
        right   == Slice(text, e, eol_idx)
    IN  IF StripIsEmpty(left) /\ StripIsEmpty(right)
        THEN IF eol_idx < Len(text) /\ text[eol_idx + 1] = LF
             THEN eol_idx + 1
             ELSE eol_idx
        ELSE e

\* while idx < len(content) and content[idx] == "\n": idx += 1
RECURSIVE ConsumeBlankLines(_, _)
ConsumeBlankLines(text, at) ==
    IF at < Len(text) /\ text[at + 1] = LF
    THEN ConsumeBlankLines(text, at + 1)
    ELSE at

\* a variant that also consumes the line after the removed comment and its
\* blank lines, so that the cursor can pass the start of the next span
DropCursor_ConsumesNextLine(text, s, e) ==
    LET at == ConsumeBlankLines(text, _extend_end_consume_eol_if_standalone(text, s, e))
        nl == Find(text, LF, at)
    IN  IF nl = -1 THEN Len(text) ELSE nl + 1

\* where the cursor goes when the span (s, e) is dropped
DropCursor(text, s, e) ==
    ConsumeBlankLines(text, _extend_end_consume_eol_if_standalone(text, s, e))

\* a variant that advances over a kept comment without emitting it
EmitKept_Nothing(ctext) == <<>>

\* what the kept comment contributes to the output
EmitKept(ctext) == ctext

\* A machine state m is the record of what the nested functions read and
\* write: [idx, out_parts, comments, pending, decisions, file, requests,
\* writes, raised].  _apply_decision_and_emit(rec) with the enclosing ctx:
_apply_decision_and_emit(m, text, rec, ctx_now) ==
    LET pre       == IF m.idx < rec.s THEN Slice(text, m.idx, rec.s) ELSE <<>>
        keep_flag == m.decisions[rec.sha1]
        record    == [sha1 |-> rec.sha1, comment |-> rec.comment,
                      keep |-> keep_flag, snippet |-> ctx_now]
    IN  IF keep_flag
        THEN [m EXCEPT !.out_parts = @ \o pre \o EmitKept(rec.comment),
                       !.comments  = Append(@, record),
                       !.idx       = rec.e]
        ELSE [m EXCEPT !.out_parts = @ \o pre,
                       !.comments  = Append(@, record),
                       !.idx       = DropCursor(text, rec.s, rec.e)]

---------------------------------------------------------------------------
(* The batch oracle adapter *)

\* the numbers (1-based) of the pending records whose fingerprint is not cached,
\* in order: map_idx
RECURSIVE UncachedOf(_, _, _)
UncachedOf(pend, dec, j) ==
    IF j > Len(pend) THEN <<>>
    ELSE IF pend[j].sha1 \notin DOMAIN dec
         THEN <<j>> \o UncachedOf(pend, dec, j + 1)
         ELSE UncachedOf(pend, dec, j + 1)

map_idx(pend, dec) == UncachedOf(pend, dec, 1)

\* the items of the request: the comment texts of the uncached records
to_query(pend, dec) ==
    LET mi == map_idx(pend, dec)
    IN  [k \in 1..Len(mi) |-> pend[mi[k]].comment]

\* the value one answered item writes to the index and to the log
AnsweredKeep(keep) == keep

\* for j, keep in zip(map_idx, keeps): decisions[sha] = keep; _append_decision(...)
RECURSIVE PersistAnswers(_, _, _, _)
PersistAnswers(m, mi, keeps, k) ==
    IF k > Len(mi) \/ k > Len(keeps) THEN m
    ELSE LET sha  == m.pending[mi[k]].sha1
             keep == AnsweredKeep(keeps[k])
         IN  PersistAnswers(
                 [m EXCEPT !.decisions = SetDecision(@, sha, keep),
                           !.file      = _append_decision(@, sha, keep),
                           !.writes    = @ \cup {<<sha, keep, "oracle">>}],
                 mi, keeps, k + 1)

\* the deterministic default of a record the oracle gave no result for
DefaultDecision(rec) == Len(rec.comment) < DefaultKeepBelow

\* decisions.setdefault(rec["sha1"], len(rec["comment"]) < 500): the index alone
SetDefault(m, rec) ==
    IF rec.sha1 \in DOMAIN m.decisions THEN m
    ELSE [m EXCEPT !.decisions = SetDecision(@, rec.sha1, DefaultDecision(rec)),
                   !.writes    = @ \cup {<<rec.sha1, DefaultDecision(rec), "default">>}]

\* for rec in pending: setdefault; _apply_decision_and_emit(rec)
RECURSIVE ApplyPending(_, _, _, _)
ApplyPending(m, text, ctx_now, j) ==
    IF j > Len(m.pending) THEN m
    ELSE ApplyPending(
             _apply_decision_and_emit(SetDefault(m, m.pending[j]), text,
                                      m.pending[j], ctx_now),
             text, ctx_now, j + 1)

\* a flush that takes the answers one record at a time: the answer of a record
\* is stored and the record applied before the next answer is looked at
RECURSIVE AnswerThenApply(_, _, _, _, _, _)
AnswerThenApply(m, text, ctx_now, mi, keeps, j) ==
    IF j > Len(m.pending) THEN m
    ELSE LET at     == {k \in 1..Len(mi) : mi[k] = j /\ k <= Len(keeps)}
             stored == IF at = {} THEN m
                       ELSE PersistAnswers(m, <<j>>, <<keeps[CHOOSE k \in at : TRUE]>>, 1)
         IN  AnswerThenApply(
                 _apply_decision_and_emit(SetDefault(stored, m.pending[j]), text,
                                          m.pending[j], ctx_now),
                 text, ctx_now, mi, keeps, j + 1)

_flush_pending_AnswerThenApply(m, text, ctx_now, outcome) ==
    IF m.pending = <<>> THEN m
    ELSE LET mi == map_idx(m.pending, m.decisions)
             tq == to_query(m.pending, m.decisions)
         IN  IF tq = <<>>
             THEN [ApplyPending(m, text, ctx_now, 1) EXCEPT !.pending = <<>>]
             ELSE LET asked == [m EXCEPT !.requests = Append(@, tq)]
                  IN  IF outcome.raised
                      THEN [asked EXCEPT !.raised = TRUE]
                      ELSE [AnswerThenApply(asked, text, ctx_now, mi, outcome.keeps, 1)
                               EXCEPT !.pending = <<>>]

\* An oracle outcome is [raised |-> BOOLEAN, keeps |-> a sequence of BOOLEAN]:
\* decide_keep_drop_batch either raises or returns an iterable of results.
\* _flush_pending() with the outcome of the call it makes (if it makes one):
_flush_pending(m, text, ctx_now, outcome) ==
    IF m.pending = <<>> THEN m
    ELSE LET mi == map_idx(m.pending, m.decisions)
             tq == to_query(m.pending, m.decisions)
         IN  IF tq = <<>>
             THEN [ApplyPending(m, text, ctx_now, 1) EXCEPT !.pending = <<>>]
             ELSE LET asked == [m EXCEPT !.requests = Append(@, tq)]
                  IN  IF outcome.raised
                      THEN [asked EXCEPT !.raised = TRUE]
                      ELSE [ApplyPending(PersistAnswers(asked, mi, outcome.keeps, 1),
                                         text, ctx_now, 1)
                               EXCEPT !.pending = <<>>]

\* the sequences of BOOLEAN of length 0..n
BoolSeqs(n) == UNION {[1..k -> BOOLEAN] : k \in 0..n}

\* what the oracle may do with a request of n items.  A result list longer
\* than the request is cut to it by zip, so lengths 0..n cover every answer.
OracleOutcomes(n) ==
    IF n = 0 THEN {[raised |-> FALSE, keeps |-> <<>>]}
    ELSE {[raised |-> FALSE, keeps |-> ks] : ks \in BoolSeqs(n)}
         \cup {[raised |-> TRUE, keeps |-> <<>>]}

---------------------------------------------------------------------------
(* extract_strip_cry_comments *)

\* the state the nested functions share, as a machine state
Machine ==
    [idx |-> idx, out_parts |-> out_parts, comments |-> comments,
     pending |-> pending, decisions |-> decisions, file |-> file,
     requests |-> requests, writes |-> writes, raised |-> FALSE]

\* the record of span number k (0-based) and the context computed for it
RecordOf(text, sp, k) ==
    LET s == sp[k + 1][1]
        e == sp[k + 1][2]
    IN  [s |-> s, e |-> e,
         sha1 |-> _sha1(Slice(text, s, e)),
         comment |-> Slice(text, s, e),
         ctx |-> _make_code_context(text, e, _next_span_start(sp, k),
                                    context_max_chars)]

\* a buffer that is flushed one record late (what C22 rules out)
BufferFull_OneLate(pend, cap) == Len(pend) > cap

\* len(pending) >= llm_buffer_size
BufferFull(pend, cap) == Len(pend) >= cap

\* the number of items the oracle is sent while span number k is handled
AskedAt(m, text, sp, k, cap) ==
    LET rec == RecordOf(text, sp, k)
    IN  IF rec.s < m.idx THEN 0
        ELSE IF rec.sha1 \in DOMAIN m.decisions
             THEN Len(to_query(m.pending, m.decisions))
             ELSE IF BufferFull(Append(m.pending, rec), cap)
                  THEN Len(to_query(Append(m.pending, rec), m.decisions))
                  ELSE 0

\* a loop body that applies a cached decision at once, with earlier records
\* still pending (what C16 rules out)
ForBody_HitOvertakesPending(m, ctx_old, text, sp, k, cap, outcome) ==
    LET rec == RecordOf(text, sp, k)
    IN  IF rec.sha1 \in DOMAIN m.decisions
        THEN [m |-> _apply_decision_and_emit(m, text, rec, rec.ctx), ctx |-> rec.ctx]
        ELSE LET b == [m EXCEPT !.pending = Append(@, rec)]
             IN  [m   |-> IF BufferFull(b.pending, cap)
                          THEN _flush_pending(b, text, rec.ctx, outcome)
                          ELSE b,
                  ctx |-> rec.ctx]

\* one iteration of "for i, (s, e, kind) in enumerate(spans)"; the result is
\* the machine state with the new value of the variable ctx
ForBody(m, ctx_old, text, sp, k, cap, outcome) ==
    LET rec == RecordOf(text, sp, k)
    IN  IF rec.s < m.idx
        THEN [m |-> m, ctx |-> ctx_old]
        ELSE IF rec.sha1 \in DOMAIN m.decisions
             THEN LET f == _flush_pending(m, text, rec.ctx, outcome)
                  IN  [m   |-> IF f.raised THEN f
                               ELSE _apply_decision_and_emit(f, text, rec, rec.ctx),
                       ctx |-> rec.ctx]
             ELSE LET b == [m EXCEPT !.pending = Append(@, rec)]
                  IN  [m   |-> IF BufferFull(b.pending, cap)
                               THEN _flush_pending(b, text, rec.ctx, outcome)
                               ELSE b,
                       ctx |-> rec.ctx]

\* re.sub(r"^\n+", "", new_content)
RECURSIVE StripLeadingNewlines(_)
StripLeadingNewlines(text) ==
    IF text # <<>> /\ Head(text) = LF THEN StripLeadingNewlines(Tail(text)) ELSE text

\* the tail of code after the last comment, the join and the normalisation
FinalContent(m, text) ==
    StripLeadingNewlines(
        m.out_parts \o (IF m.idx < Len(text) THEN Slice(text, m.idx, Len(text)) ELSE <<>>))

Install(m) ==
    /\ idx' = m.idx
    /\ out_parts' = m.out_parts
    /\ comments' = m.comments
    /\ pending' = m.pending
    /\ decisions' = m.decisions
    /\ file' = m.file
    /\ requests' = m.requests
    /\ writes' = m.writes

\* one iteration of the loop over the spans
LoopStep ==
    /\ pc = "loop"
    /\ i < Len(spans)
    /\ \E outcome \in OracleOutcomes(AskedAt(Machine, content, spans, i, llm_buffer_size)) :
          LET r == ForBody(Machine, ctx, content, spans, i, llm_buffer_size, outcome)
          IN  /\ Install(r.m)
              /\ ctx' = r.ctx
              /\ pc' = IF r.m.raised THEN "raised" ELSE "loop"
              /\ i' = IF r.m.raised THEN i ELSE i + 1
    /\ UNCHANGED <<content, llm_buffer_size, spans, new_content, run, first>>
    /\ UNCHANGED <<synced, ld, kv, ls, rt, ck, im>>

\* after the loop: the last flush, the tail, the join, the return
EndOfDocument ==
    /\ pc = "loop"
    /\ i = Len(spans)
    /\ \E outcome \in OracleOutcomes(Len(to_query(pending, decisions))) :
          LET m == _flush_pending(Machine, content, ctx, outcome)
          IN  /\ Install(m)
              /\ pc' = IF m.raised THEN "raised" ELSE "done"
              /\ new_content' = IF m.raised THEN new_content
                                ELSE FinalContent(m, content)
    /\ UNCHANGED <<content, llm_buffer_size, spans, i, ctx, run, first>>
    /\ UNCHANGED <<synced, ld, kv, ls, rt, ck, im>>

\* a call of extract_strip_cry_comments on text with the cache file as the
\* caller finds it (file'): the load of the cache comes first, and an
\* exception it raises leaves the call before anything else is done
Enter(text) ==
    /\ content' = text
    /\ decisions' = IF ReadRaises(file') THEN <<>> ELSE _read_decision_cache(file')
    /\ spans' = IF ReadRaises(file') THEN <<>> ELSE _collect_spans(text)
    /\ i' = 0
    /\ idx' = 0
    /\ out_parts' = <<>>
    /\ comments' = <<>>
    /\ pending' = <<>>
    /\ ctx' = <<>>
    /\ pc' = IF ReadRaises(file') THEN "raised" ELSE "loop"
    /\ new_content' = <<>>
    /\ requests' = <<>>
    /\ UNCHANGED <<llm_buffer_size, writes>>
    /\ UNCHANGED <<ld, kv, ls, rt, ck, im>>

\* the flags of the comment records, in order
KeepFlags(cs) == [k \in 1..Len(cs) |-> cs[k].keep]

Returned ==
    [content |-> content, new_content |-> new_content, keeps |-> KeepFlags(comments)]

\* the caller runs the pipeline again on the same document and cache file
Rerun ==
    /\ pc = "done"
    /\ run = 1
    /\ run' = 2
    /\ first' = Returned
    /\ UNCHANGED <<file, synced>>
    /\ Enter(content)

\* the caller runs the pipeline on the content the first call produced
RerunOnOutput ==
    /\ pc = "done"
    /\ run = 1
    /\ run' = 2
    /\ first' = Returned
    /\ UNCHANGED <<file, synced>>
    /\ Enter(new_content)

---------------------------------------------------------------------------
(* The documents and the cache files the model starts from *)

\* the number of pieces a generated document is made of
MaxPieces == 3

\* the largest batch cap
MaxBuffer == 2

Pieces ==
    {<<SLASH, SLASH>>, <<SLASH, STAR>>, <<STAR, SLASH>>, <<"a">>, <<LF>>, <<SP>>,
     <<SLASH>>, <<CR>>, <<FF>>}

RECURSIVE Concat(_)
Concat(ps) == IF ps = <<>> THEN <<>> ELSE Head(ps) \o Concat(Tail(ps))

GeneratedDocs == {Concat(ps) : ps \in UNION {[1..n -> Pieces] : n \in 0..MaxPieces}}

\* "let y = x + 1 // trailing\n"
DocInline ==
    <<"l", "e", "t", SP, "y", SP, "=", SP, "x", SP, "+", SP, "1", SP,
      SLASH, SLASH, SP, "t", "r", "a", "i", "l", "i", "n", "g", LF>>

\* "// a\n// b\nlet x = 1\n"
DocCoalesced ==
    <<SLASH, SLASH, SP, "a", LF, SLASH, SLASH, SP, "b", LF,
      "l", "e", "t", SP, "x", SP, "=", SP, "1", LF>>

\* "/* oops"
DocUnterminated == <<SLASH, STAR, SP, "o", "o", "p", "s">>

\* "/*a*///"
DocBlockThenSlashes == <<SLASH, STAR, "a", STAR, SLASH, SLASH, SLASH>>

\* "// a\n \nx\n"
DocBlankWithSpace == <<SLASH, SLASH, SP, "a", LF, SP, LF, "x", LF>>

\* "// a\r\n\r\nx"
DocCRLF == <<SLASH, SLASH, SP, "a", CR, LF, CR, LF, "x">>

\* "//a\n\n//b\n\n//a"
DocRepeated ==
    <<SLASH, SLASH, "a", LF, LF, SLASH, SLASH, "b", LF, LF, SLASH, SLASH, "a">>

\* "\n\n  /*a*/ \n\n\nx"
DocIndentedBlock ==
    <<LF, LF, SP, SP, SLASH, STAR, "a", STAR, SLASH, SP, LF, LF, LF, "x">>

\* "//a\n\n//a\n"
DocTwins == <<SLASH, SLASH, "a", LF, LF, SLASH, SLASH, "a", LF>>

\* "/*//*/\n// b\n// c\nx // d"
DocMixed ==
    <<SLASH, STAR, SLASH, SLASH, STAR, SLASH, LF, SLASH, SLASH, SP, "b", LF,
      SLASH, SLASH, SP, "c", LF, "x", SP, SLASH, SLASH, SP, "d">>

\* "//a\n\n//b\n\n//c\n\n//d\n\n//e"
DocFive ==
    <<SLASH, SLASH, "a", LF, LF, SLASH, SLASH, "b", LF, LF, SLASH, SLASH, "c", LF, LF,
      SLASH, SLASH, "d", LF, LF, SLASH, SLASH, "e">>

\* "/** u://x */\nf"
DocDocWithUrl ==
    <<SLASH, STAR, STAR, SP, "u", ":", SLASH, SLASH, "x", SP, STAR, SLASH, LF, "f">>

ScenarioDocs ==
    {DocInline, DocCoalesced, DocUnterminated, DocBlockThenSlashes,
     DocBlankWithSpace, DocCRLF, DocRepeated, DocIndentedBlock, DocTwins,
     DocMixed, DocFive, DocDocWithUrl}

Docs == GeneratedDocs \cup ScenarioDocs

\* the number of pieces of a document generated for the span detector
MaxSpanPieces == 5

\* the pieces of those documents: a line comment opener, a whole block
\* comment, code, a line break, a space, a tab and a carriage return
SpanPieces ==
    {<<SLASH, SLASH>>, <<SLASH, STAR, "b", STAR, SLASH>>, <<"a">>, <<LF>>, <<SP>>,
     <<TAB>>, <<CR>>}

\* "//a\n \t//b\n\t/*c*/\n//d\n\n//e\r\n//f\n \n//g\nx\n//h"
DocStacked ==
    <<SLASH, SLASH, "a", LF, SP, TAB, SLASH, SLASH, "b", LF,
      TAB, SLASH, STAR, "c", STAR, SLASH, LF, SLASH, SLASH, "d", LF, LF,
      SLASH, SLASH, "e", CR, LF, SLASH, SLASH, "f", LF, SP, LF,
      SLASH, SLASH, "g", LF, "x", LF, SLASH, SLASH, "h">>

\* the documents the span detector is run on
SpanDocs ==
    {Concat(ps) : ps \in UNION {[1..n -> SpanPieces] : n \in 0..MaxSpanPieces}}
    \cup Docs \cup {DocStacked}

\* the comment texts of a document
TextsOf(text) ==
    LET sp == _collect_spans(text)
    IN  {Slice(text, sp[k][1], sp[k][2]) : k \in 1..Len(sp)}

\* the cache file before the first call: absent, or left by an earlier run that
\* decided one of the texts, with or without the line break after the record,
\* or cut in the middle of its one record, or one line that is not JSON and
\* that the bytes of a record can turn into a line on which the load raises
InitFiles(text) ==
    {<<>>, <<Unterminated(Malformed("garbage", <<>>, FALSE))>>,
     <<Unterminated(Malformed("openstring", <<>>, FALSE))>>}
    \cup {<<Unterminated(Deep(room))>> : room \in 1..MaxRoom}
    \cup {<<Line(_sha1(c), keep)>> : c \in TextsOf(text), keep \in BOOLEAN}
    \cup {<<Unterminated(Line(_sha1(c), keep))>> : c \in TextsOf(text), keep \in BOOLEAN}

\* the components that are not running: their variables as they stay while
\* another component is checked
LdIdle == [lines |-> <<>>, pc |-> "idle", decisions |-> <<>>]
NoCall == [op |-> "none", key |-> "", had |-> FALSE, stored |-> "", called |-> FALSE,
           returned |-> "", grew |-> 0]
NoSet == [op |-> "none", key |-> "", value |-> ""]
KvIdle == [file |-> <<>>, index |-> <<>>, synced |-> 0, pc |-> "idle", last |-> NoCall,
           calls |-> <<>>, written |-> 0, setting |-> NoSet]
LsIdle == [s |-> <<>>, i |-> 0, out |-> <<>>, in_line |-> FALSE, in_sq |-> FALSE,
           in_dq |-> FALSE, escape |-> FALSE, pc |-> "idle"]
RtIdle == [max_retries |-> 0, max_delay |-> 0, attempt |-> 0, outcomes |-> <<>>,
           delay |-> 0, slept |-> <<>>, pc |-> "idle"]
CkIdle == [n |-> 0, max_len |-> 0, stride |-> 0, pad |-> FALSE, start |-> 0,
           chunks |-> <<>>, pc |-> "idle"]
ImIdle == [lines |-> <<>>, k |-> 0, header |-> <<>>, imports |-> <<>>, body |-> <<>>,
           in_imports |-> FALSE, seen_import |-> FALSE, idx |-> 0, removed |-> 0,
           final |-> <<>>, pc |-> "idle"]

Init ==
    /\ content \in Docs
    /\ llm_buffer_size \in 1..MaxBuffer
    /\ file \in InitFiles(content)
    /\ decisions = _read_decision_cache(file)
    /\ spans = _collect_spans(content)
    /\ i = 0
    /\ idx = 0
    /\ out_parts = <<>>
    /\ comments = <<>>
    /\ pending = <<>>
    /\ ctx = <<>>
    /\ pc = "loop"
    /\ new_content = <<>>
    /\ run = 1
    /\ requests = <<>>
    /\ writes = {<<file[k].sha1, file[k].keep, "earlier">> :
                     k \in {j \in 1..Len(file) : file[j].kind = "record"}}
    /\ first = [content |-> <<>>, new_content |-> <<>>, keeps |-> <<>>]
    /\ synced = Len(file)
    /\ ld = LdIdle
    /\ kv = KvIdle
    /\ ls = LsIdle
    /\ rt = RtIdle
    /\ ck = CkIdle
    /\ im = ImIdle

Next ==
    \/ LoopStep
    \/ EndOfDocument
    \/ Rerun
    \/ RerunOnOutput

Spec == Init /\ [][Next]_vars

\* extract_strip_cry_comments called with a document and an empty cache file,
\* before its first statement
SpansInit ==
    /\ content \in SpanDocs
    /\ llm_buffer_size = 1
    /\ file = <<>>
    /\ decisions = <<>>
    /\ spans = <<>>
    /\ i = 0
    /\ idx = 0
    /\ out_parts = <<>>
    /\ comments = <<>>
    /\ pending = <<>>
    /\ ctx = <<>>
    /\ pc = "entry"
    /\ new_content = <<>>
    /\ run = 1
    /\ requests = <<>>
    /\ writes = {}
    /\ first = [content |-> <<>>, new_content |-> <<>>, keeps |-> <<>>]
    /\ synced = 0
    /\ ld = LdIdle
    /\ kv = KvIdle
    /\ ls = LsIdle
    /\ rt = RtIdle
    /\ ck = CkIdle
    /\ im = ImIdle

\* the call up to the return of _collect_spans
DetectSpans ==
    /\ pc = "entry"
    /\ UNCHANGED <<file, synced, run, first>>
    /\ Enter(content)

\* the span detector alone, on every document of SpanDocs
SpecSpans == SpansInit /\ [][DetectSpans]_vars

\* the pipeline not running: its variables as they stay while another
\* component is checked
PipelineIdle ==
    /\ content = <<>>
    /\ llm_buffer_size = 1
    /\ file = <<>>
    /\ decisions = <<>>
    /\ spans = <<>>
    /\ i = 0
    /\ idx = 0
    /\ out_parts = <<>>
    /\ comments = <<>>
    /\ pending = <<>>
    /\ ctx = <<>>
    /\ pc = "idle"
    /\ new_content = <<>>
    /\ run = 1
    /\ requests = <<>>
    /\ writes = {}
    /\ first = [content |-> <<>>, new_content |-> <<>>, keeps |-> <<>>]
    /\ synced = 0

---------------------------------------------------------------------------
(* Notions the properties are stated with *)

\* text without the line feeds it begins with
WithoutLeadingLFs(text) ==
    LET rest == {p \in 1..Len(text) : text[p] # LF}
    IN  IF rest = {} THEN <<>> ELSE SubSeq(text, Min(rest), Len(text))

\* the bytes of text at the offsets from..Len(text)-1 that are not in gone, in order
RECURSIVE Without(_, _, _)
Without(text, gone, from) ==
    IF from >= Len(text) THEN <<>>
    ELSE (IF from \in gone THEN <<>> ELSE <<text[from + 1]>>)
         \o Without(text, gone, from + 1)

\* the offset at which the line holding offset s begins
LineStart(text, s) ==
    LET breaks == {q \in 0..(s - 1) : text[q + 1] = LF}
    IN  IF breaks = {} THEN 0 ELSE Max(breaks) + 1

\* the offset of the line break that ends the line holding offset e, or Len(text)
LineBreakAfter(text, e) ==
    LET breaks == {q \in e..(Len(text) - 1) : text[q + 1] = LF}
    IN  IF breaks = {} THEN Len(text) ELSE Min(breaks)

\* a standalone comment: only whitespace before it since the last line break and
\* only whitespace after it up to the next line break
Standalone(text, s, e) ==
    /\ \A q \in LineStart(text, s)..(s - 1) : IsSpace(text[q + 1])
    /\ \A q \in e..(LineBreakAfter(text, e) - 1) : IsSpace(text[q + 1])

\* the numbers of the spans decided drop, of those the standalone and the inline
Dropped == {k \in 1..Len(spans) : k <= Len(comments) /\ ~comments[k].keep}
DroppedStandalone == {k \in Dropped : Standalone(content, spans[k][1], spans[k][2])}
DroppedInline == Dropped \ DroppedStandalone

\* the offsets of the bytes of the dropped comments
DroppedBytes == UNION {spans[k][1]..(spans[k][2] - 1) : k \in Dropped}

\* the offset of the line break that ends the line of span k, if there is one
TrailingBreak(k) ==
    {LineBreakAfter(content, spans[k][2])} \cap (0..(Len(content) - 1))

\* the whitespace after standalone span k on its line, with the line break
RestOfLine(k) ==
    spans[k][2]..Min({LineBreakAfter(content, spans[k][2]), Len(content) - 1})

\* where the bytes after span k begin that are neither comment nor its line's rest
AfterLine(k) ==
    IF k \in DroppedStandalone
    THEN Min({LineBreakAfter(content, spans[k][2]) + 1, Len(content)})
    ELSE spans[k][2]

\* the run of line feeds that begins at offset from
LineFeedRun(from) ==
    {p \in from..(Len(content) - 1) : \A q \in from..p : content[q + 1] = LF}

\* the whitespace-only lines, each ended by a line break, that begin at offset from
BlankLines(from) ==
    {p \in from..(Len(content) - 1) :
        \E r \in p..(Len(content) - 1) :
            /\ content[r + 1] = LF
            /\ \A q \in from..r : IsSpace(content[q + 1])}

\* the call returned a record for every span
Finished == pc = "done" /\ Len(comments) = Len(spans)

---------------------------------------------------------------------------
(* C1 *)

\* C1: the output is the input without the bytes of the dropped comments and,
\* for each dropped standalone comment, without at most its one trailing line
\* break; every other byte is there once, in order.
C1_OnlyCommentsAndOneBreakRemoved ==
    pc = "done" =>
        \E T \in SUBSET (UNION {TrailingBreak(k) : k \in DroppedStandalone}) :
            new_content = Without(content, DroppedBytes \cup T, 0)

\* what the rewriter removes after dropped span k: after a standalone comment
\* the rest of its line with the line break (_extend_end_consume_eol_if_standalone),
\* and after any dropped comment the run of line feeds that follows (the loop
\* of _apply_decision_and_emit)
ExcisedAfter(k) ==
    (IF k \in DroppedStandalone THEN RestOfLine(k) ELSE {}) \cup LineFeedRun(AfterLine(k))

Excised == DroppedBytes \cup UNION {ExcisedAfter(k) : k \in Dropped}

---------------------------------------------------------------------------
(* C2 *)

\* what C2 has a drop remove: of an inline comment its bytes alone; a dropped
\* standalone comment is removed as the rewriter removes it
ExcisedInlineExact ==
    DroppedBytes \cup UNION {ExcisedAfter(k) : k \in DroppedStandalone}

\* C2: dropping an inline comment removes the bytes of the comment span and
\* nothing else, so the line break that ends its line stays in the output; and
\* "let y = x + 1 // trailing\n" keeps its line break.
C2_InlineDropKeepsLineBreak ==
    Finished =>
        /\ new_content = WithoutLeadingLFs(Without(content, ExcisedInlineExact, 0))
        /\ (content = DocInline /\ Dropped = {1}) =>
               /\ new_content # <<>>
               /\ new_content[Len(new_content)] = LF

---------------------------------------------------------------------------
(* C3 *)

\* what C3 has a drop remove: after a standalone comment the rest of its line,
\* its line break and every whitespace-only line that follows; an inline drop
\* is removed as the rewriter removes it
ExcisedBlankLines ==
    DroppedBytes
    \cup UNION {ExcisedAfter(k) : k \in DroppedInline}
    \cup UNION {RestOfLine(k) \cup BlankLines(AfterLine(k)) : k \in DroppedStandalone}

\* "let x = 1\n"
LetX == <<"l", "e", "t", SP, "x", SP, "=", SP, "1", LF>>

\* C3: dropping a standalone comment consumes its trailing line break and every
\* fully blank line that follows it (a line of nothing but whitespace, CRLF
\* lines included); "// a\n// b\nlet x = 1\n" dropped gives "let x = 1\n".
C3_StandaloneDropLeavesNoBlankLine ==
    Finished =>
        /\ new_content = WithoutLeadingLFs(Without(content, ExcisedBlankLines, 0))
        /\ (content = DocCoalesced /\ Dropped = {1}) => new_content = LetX

---------------------------------------------------------------------------
(* C4 *)

\* C4: when every span is decided keep, the rewritten content is the input
\* without the line feeds at its very start; "/* oops" is reproduced unchanged.
C4_KeepAllReproducesInput ==
    pc = "done" =>
        /\ (\A k \in 1..Len(comments) : comments[k].keep) =>
               new_content = WithoutLeadingLFs(content)
        /\ content = DocUnterminated => new_content = DocUnterminated

\* C4 witness: a kept comment in a document that begins with blank lines
C4_Witness ==
    /\ pc = "done"
    /\ content = DocIndentedBlock
    /\ Len(comments) = 1
    /\ comments[1].keep
    /\ new_content = SubSeq(DocIndentedBlock, 3, Len(DocIndentedBlock))

---------------------------------------------------------------------------
(* C5 *)

\* C5: the content produced by a pass that dropped every span holds no comment
\* span when the pipeline is run on it again.
C5_DropAllIsFixedPoint ==
    (/\ run = 2
     /\ content = first.new_content
     /\ \A k \in 1..Len(first.keeps) : ~first.keeps[k])
        => spans = <<>>

---------------------------------------------------------------------------
(* C6 *)

\* C6: a second run on the same content with the same cache file, after a first
\* run that completed, sends the oracle nothing.
C6_SecondRunAsksNothing ==
    (run = 2 /\ content = first.content) => requests = <<>>

---------------------------------------------------------------------------
(* C7 *)

\* the items of all requests of this call
RequestItems ==
    UNION {{<<r, j>> : j \in 1..Len(requests[r])} : r \in 1..Len(requests)}

\* C7: a comment text is submitted to the oracle once: no text is an item of
\* two requests, or twice an item of one request.
C7_IdenticalTextAskedOnce ==
    \A a, b \in RequestItems :
        requests[a[1]][a[2]] = requests[b[1]][b[2]] => a = b

---------------------------------------------------------------------------
(* C8 *)

\* C8: an item the oracle returned no result for gets the default decision
\* (keep iff its text is shorter than the threshold), and that decision is in
\* the cache file, so that a later run finds the fingerprint cached.
C8_DefaultIsAppliedAndRecorded ==
    (pc = "done" /\ run = 1) =>
        \A w \in writes : w[3] = "default" =>
            /\ \A k \in 1..Len(comments) : comments[k].sha1 = w[1] =>
                   /\ w[2] = (Len(comments[k].comment) < DefaultKeepBelow)
                   /\ comments[k].keep = w[2]
            /\ w[1] \in DOMAIN _read_decision_cache(file)

---------------------------------------------------------------------------
(* C9 *)

\* C9: a failed oracle call is not fatal to the document: no exception leaves
\* the call, the batch gets the default decisions and the call goes on.
C9_OracleFailureNotFatal == pc # "raised"

---------------------------------------------------------------------------
(* C10 *)

\* C10: once a decision has been written for a fingerprint, to the index or to
\* the log, in this run or an earlier one, no other keep value is written for it.
C10_DecisionsNeverRevised ==
    \A w1, w2 \in writes : w1[1] = w2[1] => w1[2] = w2[2]

---------------------------------------------------------------------------
(* The cache file across a crash of the machine *)

\* _append_decision opens the file for appending, writes the line and closes
\* the file: the line reaches the operating system, nothing forces it to the
\* disk, so synced stays where it is.  When the machine goes down, the lines
\* after the first synced ones may or may not have reached the disk; the
\* file is append-only, so what survives is a prefix of its bytes.

\* the line once its bytes are on the disk
Forced(line) == [line EXCEPT !.head = <<>>]

\* the record holds true, false or null: a decision always does, a record of
\* the key-value cache when its value is one of them
HasLiteral(line) == "value" \in DOMAIN line => line.value \in {"false", "true", "null"}

\* what the bytes up to a point inside the record make of the line, given the
\* unterminated line the record was appended to, if any.  Alone or after
\* most lines they are not JSON.  After a line that raises before its end
\* is read the line stays of that kind.  After an open string the first
\* byte, "{", leaves the string open, and the second, a quote, closes it:
\* the line is a JSON string.  After a deep line the failure needs room: cut
\* inside a key or a string or after a value, CostOfPart levels; cut after a
\* colon or inside a literal, the level of the object, and after a colon
\* the line is again a deep line, one level deeper.
Parts(line) ==
    LET whole   == Unterminated(Forced(line))
        As(kind) == [whole EXCEPT !.kind = kind]
        h       == line.head
    IN  IF h = <<>> THEN {As("garbage")}
        ELSE IF h[1].kind \in StickyKinds THEN {whole}
        ELSE IF h[1].kind = "openstring" THEN {h[1], As("nonobject"), As("garbage")}
        ELSE IF h[1].kind = "deep"
        THEN {As(IF h[1].room <= CostOfPart THEN "toodeep" ELSE "garbage")}
             \cup {IF h[1].room <= CostOfValue THEN As("toodeep")
                   ELSE [h[1] EXCEPT !.room = @ - 1]}
             \cup {As(IF h[1].room <= CostOfValue THEN "toodeep" ELSE "garbage") :
                      l \in {l \in {line} : HasLiteral(l)}}
        ELSE {As("garbage")}

\* what can be left of a line when only some of its unforced bytes reached the
\* disk: the line it was appended to, if any; the bytes up to a point inside
\* the record; all but the line break
Torn(line) ==
    {Unterminated(Forced(line))} \cup Parts(line)
    \cup {line.head[k] : k \in DOMAIN line.head}

\* the files the disk can hold when the first forced lines are safe
Survivors(lines, forced) ==
    LET lo      == IF forced \in 1..Len(lines) /\ lines[forced].head # <<>>
                   THEN forced - 1 ELSE forced
        Safe(n) == [k \in 1..n |-> Forced(lines[k])]
    IN  {Safe(n) : n \in {m \in lo..Len(lines) :
                             m = Len(lines) \/ lines[m + 1].head = <<>>}}
        \cup UNION {{Append(Safe(n), l) : l \in Torn(lines[n + 1])} :
                       n \in lo..(Len(lines) - 1)}

\* the machine crashes during or after the first call, comes back with what
\* the disk holds, and the pipeline is run again on the same document
MachineCrash ==
    /\ pc \in {"loop", "done"}
    /\ run = 1
    /\ run' = 2
    /\ first' = Returned
    /\ file' \in Survivors(file, synced)
    /\ synced' = Len(file')
    /\ Enter(content)

NextCrash ==
    \/ LoopStep
    \/ EndOfDocument
    \/ Rerun
    \/ RerunOnOutput
    \/ MachineCrash

\* the documents the crash is checked on: all but the one of five comments (a
\* crash can strike in every state of a call and leave several files, which
\* multiplies the states of that document by the millions)
CrashDocs == Docs \ {DocFive}

CrashInit == Init /\ content \in CrashDocs

SpecCrash == CrashInit /\ [][NextCrash]_vars

---------------------------------------------------------------------------
(* C11 *)

\* C11: once a decision of the oracle has been recorded, it is in the cache
\* file for good: at every later moment, a crash of the machine and a restart
\* included, loading the file finds the fingerprint.
C11_RecordedDecisionIsDurable ==
    \A w \in writes :
        w[3] = "oracle" => w[1] \in DOMAIN _read_decision_cache(file)

---------------------------------------------------------------------------
(* Loading a decision cache file that others have written to *)

\* the number of lines of the file
MaxLines == 3

\* the fingerprints the lines of the file carry
LoadKeys == {<<"a">>, <<"b">>}

\* the lines: well-formed ones, and one of each of the other kinds
LoadLines ==
    {Line(h, k) : h \in LoadKeys, k \in BOOLEAN}
    \cup {Malformed(kind, <<"a">>, TRUE) :
             kind \in {"blank", "garbage", "openstring", "badfield"} \cup RaisingKinds}
    \cup {Deep(room) : room \in 1..MaxRoom}

\* the files: every line ends with a line break, but perhaps the last
LoadFiles ==
    LET whole == UNION {[1..n -> LoadLines] : n \in 0..MaxLines}
    IN  whole \cup {[f EXCEPT ![Len(f)] = Unterminated(@)] : f \in whole \ {<<>>}}

LdInit ==
    /\ PipelineIdle
    /\ ld \in {[lines |-> f, pc |-> "start", decisions |-> <<>>] : f \in LoadFiles}
    /\ kv = KvIdle
    /\ ls = LsIdle
    /\ rt = RtIdle
    /\ ck = CkIdle
    /\ im = ImIdle

\* decisions = _read_decision_cache(decision_cache_path)
ReadCache ==
    /\ ld.pc = "start"
    /\ ld' = IF ReadRaises(ld.lines)
             THEN [ld EXCEPT !.pc = "raised"]
             ELSE [ld EXCEPT !.pc = "loaded",
                             !.decisions = _read_decision_cache(ld.lines)]
    /\ UNCHANGED <<pipeline, kv, ls, rt, ck, im>>

NextLoad == ReadCache

SpecLoad == LdInit /\ [][NextLoad]_vars

---------------------------------------------------------------------------
(* C12 *)

\* the well-formed lines of a file that carry fingerprint h
RecordsOf(lines, h) ==
    {k \in 1..Len(lines) : lines[k].kind = "record" /\ lines[k].sha1 = h}

\* C12: a load never fails, whatever the lines are, and what it returns is
\* what the well-formed lines say: a fingerprint is in the index exactly when
\* a well-formed line carries it, with the value of the last such line.
C12_BadLinesAreSkipped ==
    /\ ld.pc # "raised"
    /\ ld.pc = "loaded" =>
          /\ \A h \in LoadKeys :
                h \in DOMAIN ld.decisions <=> RecordsOf(ld.lines, h) # {}
          /\ \A h \in DOMAIN ld.decisions :
                ld.decisions[h] = ld.lines[Max(RecordsOf(ld.lines, h))].keep

---------------------------------------------------------------------------
(* The comments of a text, as a lexer reading it from left to right sees them *)

\* the offset of the first "*/" at or after from, or -1
CloseFrom(text, from) ==
    LET hits == {q \in from..(Len(text) - 2) : TwoAt(text, q, STAR, SLASH)}
    IN  IF hits = {} THEN -1 ELSE Min(hits)

\* The comments that begin at or after offset p outside every other comment,
\* as triples <<start, end, kind>>: a "line" comment runs from "//" to the end
\* of its line; a comment opened by "/*" runs to the first "*/" after the
\* opener and is a "doc" comment when it opens with "/**", a "block" comment
\* otherwise; an "open" comment has no "*/" and runs to the end of the text.
RECURSIVE CommentsFrom(_, _)
CommentsFrom(text, p) ==
    IF p >= Len(text) THEN {}
    ELSE IF TwoAt(text, p, SLASH, SLASH)
         THEN LET nl == Find(text, LF, p)
                  e  == IF nl = -1 THEN Len(text) ELSE nl
              IN  {<<p, e, "line">>} \cup CommentsFrom(text, e)
         ELSE IF TwoAt(text, p, SLASH, STAR)
              THEN LET q == CloseFrom(text, p + 2)
                   IN  IF q = -1 THEN {<<p, Len(text), "open">>}
                       ELSE {<<p, q + 2, IF text[p + 3] = STAR THEN "doc" ELSE "block">>}
                            \cup CommentsFrom(text, q + 2)
              ELSE CommentsFrom(text, p + 1)

\* the region s..e lies within one of the spans
Covered(sp, s, e) == \E k \in 1..Len(sp) : sp[k][1] <= s /\ e <= sp[k][2]

---------------------------------------------------------------------------
(* C13 *)

\* C13: every line comment and every terminated non-doc block comment that
\* begins outside all other comments lies within one of the spans that
\* _collect_spans returns.
C13_EveryCommentIsInASpan ==
    \A c \in CommentsFrom(content, 0) :
        c[3] \in {"line", "block"} => Covered(spans, c[1], c[2])

---------------------------------------------------------------------------
(* C14 *)

\* C14: the spans are not empty, ascend strictly by start, and each one ends
\* at or before the start of the next, coalesced runs included.
C14_SpansAscendAndNeverOverlap ==
    /\ \A k \in 1..Len(spans) : spans[k][1] < spans[k][2]
    /\ \A k \in 1..(Len(spans) - 1) :
          /\ spans[k][1] < spans[k + 1][1]
          /\ spans[k][2] <= spans[k + 1][1]

\* a document with a block comment whose body holds "//" (a line match that the
\* overlap resolution drops), a coalesced run of line comments and one more
\* line comment after code
C14_Witness ==
    /\ content = DocMixed
    /\ spans = <<<<0, 6, "block">>, <<7, 16, "line">>, <<19, 23, "line">>>>

---------------------------------------------------------------------------
(* C15 *)

\* C15: when the text opens a block comment outside every other comment and
\* never closes it, one of the spans starts at that "/*" and ends at the end
\* of the document.
C15_UnterminatedBlockRunsToTheEnd ==
    \A c \in CommentsFrom(content, 0) :
        c[3] = "open" =>
            \E k \in 1..Len(spans) :
                spans[k][1] = c[1] /\ spans[k][2] = Len(content)

---------------------------------------------------------------------------
(* C16 *)

\* C16: at every moment the comment records appended so far are those of the
\* first spans, in the order of the spans, and the pending records are those
\* of the spans that follow them, in order: no span is decided, emitted or
\* recorded before a span that starts earlier.  When the call returns, every
\* span has its record.
C16_RecordsFollowTheSource ==
    /\ Len(comments) + Len(pending) <= Len(spans)
    /\ \A k \in 1..Len(comments) :
          comments[k].comment = Slice(content, spans[k][1], spans[k][2])
    /\ \A j \in 1..Len(pending) :
          /\ pending[j].s = spans[Len(comments) + j][1]
          /\ pending[j].e = spans[Len(comments) + j][2]
    /\ pc = "loop" => Len(comments) + Len(pending) = i
    /\ pc = "done" => Len(comments) = Len(spans) /\ pending = <<>>

\* a call returned in which a span decided by the oracle is followed by a span
\* of another text that the cache file already decided, with room in the
\* buffer for the first to be pending when the second is met
C16_Witness ==
    /\ pc = "done"
    /\ run = 1
    /\ llm_buffer_size >= 2
    /\ \E k \in 1..(Len(comments) - 1) :
          /\ comments[k].sha1 # comments[k + 1].sha1
          /\ <<comments[k].sha1, comments[k].keep, "oracle">> \in writes
          /\ \E b \in BOOLEAN : <<comments[k + 1].sha1, b, "earlier">> \in writes

---------------------------------------------------------------------------
(* FileKVCache *)

\* the most lines the cache file grows to
MaxKvLines == 3

\* the most calls of get_or_call in progress at once (fn calling get_or_call)
MaxNesting == 2

KvKeys == {"k1", "k2"}

\* JSON values, by their JSON text; "v" stands for a string value
JsonValues == {"false", "true", "null", "v"}

\* A line of the file, by what _build_index makes of it:
\*   "record"    an object with "key" and "value", as set writes it
\*   "blank"     nothing but white space
\*   "garbage"   not JSON, and not JSON whatever is written after it
\*   "openstring" not JSON: a JSON string that lacks its closing quote
\*   "deep"      not JSON: brackets opened and never closed, ending where a
\*               value is expected, room levels short of the recursion limit
\*   "nokey"     an object without "key", or whose "key" is null
\*   "novalue"   an object with "key" and without "value"
\*   "nonobject" JSON that is not an object
\*   "unhashable" an object whose "key" is a list or an object
\*   "toodeep"   nested deeper than the recursion limit
\*   "hugeint"   holds an integer of more than 4300 digits
\* (bytes that are not UTF-8 are replaced when the file is read, errors =
\* "replace", and the line is of the kind its other bytes make it)
KvLine(kind, key, value) ==
    [kind |-> kind, key |-> key, value |-> value, eol |-> TRUE, head |-> <<>>]

KvDeep(room) ==
    [kind |-> "deep", key |-> "", value |-> "", eol |-> TRUE, head |-> <<>>,
     room |-> room]

\* the kinds of line on which the constructor raises: only
\* json.JSONDecodeError is caught, so obj.get on a value that is not an object
\* (AttributeError), self._index[k] = ... with a key that cannot be hashed
\* (TypeError), the recursion limit (RecursionError) and the integer limit
\* (ValueError) leave the constructor as exceptions
KvRaisingKinds == {"nonobject", "unhashable", "toodeep", "hugeint"}

BuildRaises(lines) == \E k \in 1..Len(lines) : lines[k].kind \in KvRaisingKinds

\* _build_index: replay the lines, the last value per key wins; a line
\* without "value" stores None
RECURSIVE _build_index(_)
_build_index(lines) ==
    IF lines = <<>> THEN <<>>
    ELSE LET n    == Len(lines)
             rest == _build_index(SubSeq(lines, 1, n - 1))
             k    == lines[n].key
             v    == IF lines[n].kind = "novalue" THEN "null" ELSE lines[n].value
         IN  IF lines[n].kind \notin {"record", "novalue"} THEN rest
             ELSE [x \in (DOMAIN rest) \cup {k} |-> IF x = k THEN v ELSE rest[x]]

\* get: self._index.get(key, False)
get(index, key) == IF key \in DOMAIN index THEN index[key] ELSE "false"

\* a test for presence (what C17 asks of get_or_call)
Absent_NotInIndex(index, key) == key \notin DOMAIN index

\* get_or_call: "if v is not False: return v" fails exactly when get gave False
Absent(index, key) == get(index, key) = "false"

\* FileKVCache(path) on a file with these lines
Constructed(lines) ==
    IF BuildRaises(lines)
    THEN [file |-> lines, index |-> <<>>, synced |-> Len(lines), pc |-> "raised",
          last |-> NoCall, calls |-> <<>>, written |-> 0, setting |-> NoSet]
    ELSE [file |-> lines, index |-> _build_index(lines), synced |-> Len(lines),
          pc |-> "open", last |-> NoCall, calls |-> <<>>, written |-> 0,
          setting |-> NoSet]

\* the files a cache is first opened on: absent, or one line of any kind,
\* with or without a line break at its end
KvStartFiles ==
    LET whole == {<<KvLine("record", k, v)>> : k \in KvKeys, v \in JsonValues}
                 \cup {<<KvLine(kind, "k1", "v")>> :
                          kind \in {"blank", "garbage", "openstring", "nokey",
                                    "novalue"} \cup KvRaisingKinds}
                 \cup {<<KvDeep(room)>> : room \in 1..MaxRoom}
    IN  {<<>>} \cup whole \cup {<<Unterminated(f[1])>> : f \in whole}

KvInit ==
    /\ PipelineIdle
    /\ ld = LdIdle
    /\ kv \in {Constructed(f) : f \in KvStartFiles}
    /\ ls = LsIdle
    /\ rt = RtIdle
    /\ ck = CkIdle
    /\ im = ImIdle

\* set up to the call of os.fsync: the record and a line break written after
\* the file as it is, and flushed; nothing has forced the bytes to the disk yet
set_write(c, key, value, op) ==
    [c EXCEPT !.file = AppendBytes(c.file, KvLine("record", key, value)),
              !.pc = "syncing",
              !.setting = [op |-> op, key |-> key, value |-> value]]

\* set from the return of os.fsync: the bytes are on the disk, the index is
\* updated
set_fsync(c) ==
    [c EXCEPT !.file = [@ EXCEPT ![Len(@)] = Forced(@)],
              !.written = @ + 1,
              !.synced = Len(c.file),
              !.index = [x \in (DOMAIN c.index) \cup {c.setting.key} |->
                            IF x = c.setting.key THEN c.setting.value ELSE c.index[x]],
              !.pc = "open",
              !.setting = NoSet]

\* cache.set(key, value), up to the call of os.fsync
KVSet ==
    /\ kv.pc = "open"
    /\ Len(kv.file) < MaxKvLines
    /\ \E key \in KvKeys, value \in JsonValues : kv' = set_write(kv, key, value, "set")
    /\ UNCHANGED <<pipeline, ld, ls, rt, ck, im>>

\* cache.get_or_call(key, fn, kwargs) up to the call of fn: v = self.get(key);
\* a value that is not False is returned at once; otherwise fn is called and
\* runs until FnReturns or FnRaises.  fn is the caller's code: while it runs
\* it can use the cache (KVSet, KVGetOrCall), so the calls in progress nest.
KVGetOrCall ==
    /\ kv.pc = "open"
    /\ \E key \in KvKeys :
          LET call == [op |-> "get_or_call", key |-> key,
                       had |-> key \in DOMAIN kv.index,
                       stored |-> get(kv.index, key), called |-> FALSE,
                       returned |-> get(kv.index, key), grew |-> 0]
          IN  IF ~Absent(kv.index, key)
              THEN kv' = [kv EXCEPT !.last = call]
              ELSE /\ Len(kv.calls) < MaxNesting
                   /\ kv' = [kv EXCEPT
                               !.calls = Append(@, [call |-> [call EXCEPT !.called = TRUE],
                                                    base |-> kv.written])]
    /\ UNCHANGED <<pipeline, ld, ls, rt, ck, im>>

\* fn of the innermost call in progress returns a value: self.set(key, v), up
\* to the call of os.fsync
FnReturns ==
    /\ kv.pc = "open"
    /\ kv.calls # <<>>
    /\ Len(kv.file) < MaxKvLines
    /\ \E result \in JsonValues :
          kv' = set_write(kv, kv.calls[Len(kv.calls)].call.key, result, "get_or_call")
    /\ UNCHANGED <<pipeline, ld, ls, rt, ck, im>>

\* os.fsync returns and the call ends: set returns None; get_or_call returns
\* what fn returned
KVSynced ==
    /\ kv.pc = "syncing"
    /\ LET stored == set_fsync(kv)
           key    == kv.setting.key
           top    == kv.calls[Len(kv.calls)]
       IN  kv' = IF kv.setting.op = "set"
                 THEN [stored EXCEPT
                         !.last = [op |-> "set", key |-> key,
                                   had |-> key \in DOMAIN kv.index,
                                   stored |-> get(kv.index, key), called |-> FALSE,
                                   returned |-> "null", grew |-> 1]]
                 ELSE [stored EXCEPT
                         !.calls = SubSeq(@, 1, Len(@) - 1),
                         !.last  = [top.call EXCEPT !.returned = kv.setting.value,
                                                    !.grew = stored.written - top.base]]
    /\ UNCHANGED <<pipeline, ld, ls, rt, ck, im>>

\* fn of the innermost call in progress raises: the exception leaves
\* get_or_call and nothing is stored
FnRaises ==
    /\ kv.pc = "open"
    /\ kv.calls # <<>>
    /\ LET top == kv.calls[Len(kv.calls)]
       IN  kv' = [kv EXCEPT
                    !.calls = SubSeq(@, 1, Len(@) - 1),
                    !.last  = [top.call EXCEPT !.returned = "raise",
                                               !.grew = kv.written - top.base]]
    /\ UNCHANGED <<pipeline, ld, ls, rt, ck, im>>

\* the process ends, by exit or by a crash of the machine, between two calls
\* or inside set before os.fsync has returned, and a new FileKVCache is
\* constructed on what the disk holds
KVReopen ==
    /\ kv.pc \in {"open", "syncing"}
    /\ \E f \in Survivors(kv.file, kv.synced) : kv' = Constructed(f)
    /\ UNCHANGED <<pipeline, ld, ls, rt, ck, im>>

NextKV ==
    \/ KVSet
    \/ KVGetOrCall
    \/ FnReturns
    \/ KVSynced
    \/ FnRaises
    \/ KVReopen

SpecKV == KvInit /\ [][NextKV]_vars

---------------------------------------------------------------------------
(* C17 *)

\* C17: a get_or_call for a key that the cache holds, whatever its value,
\* returns the stored value, does not call fn and appends nothing to the file.
C17_GetOrCallCallsOnlyWhenAbsent ==
    (kv.last.op = "get_or_call" /\ kv.last.had) =>
        /\ kv.last.returned = kv.last.stored
        /\ ~kv.last.called
        /\ kv.last.grew = 0

---------------------------------------------------------------------------
(* strip_cryptol_line_comments_only *)

\* the number of pieces a text handed to the stripper is made of
MaxStripPieces == 4

SQ == "'"
DQ == "\""
BACKSLASH == "\\"

StripPieces ==
    {<<SLASH, SLASH>>, <<SLASH, STAR>>, <<STAR, SLASH>>, <<"a">>, <<LF>>,
     <<SQ>>, <<DQ>>, <<BACKSLASH>>}

StripTexts ==
    {Concat(ps) : ps \in UNION {[1..n -> StripPieces] : n \in 0..MaxStripPieces}}

LsInit ==
    /\ PipelineIdle
    /\ ld = LdIdle
    /\ kv = KvIdle
    /\ ls \in {[s |-> s, i |-> 0, out |-> <<>>, in_line |-> FALSE, in_sq |-> FALSE,
                in_dq |-> FALSE, escape |-> FALSE, pc |-> "while"] : s \in StripTexts}
    /\ rt = RtIdle
    /\ ck = CkIdle
    /\ im = ImIdle

\* one iteration of "while i < n", on the locals l
WhileBody(l) ==
    LET ch  == l.s[l.i + 1]
        nxt == IF l.i + 1 < Len(l.s) THEN l.s[l.i + 2] ELSE ""
    IN  IF l.in_sq \/ l.in_dq
        THEN [l EXCEPT !.out = Append(@, ch),
                       !.escape = IF l.escape THEN FALSE ELSE ch = BACKSLASH,
                       !.in_sq = IF ~l.escape /\ ch # BACKSLASH /\ l.in_sq /\ ch = SQ
                                 THEN FALSE ELSE @,
                       !.in_dq = IF ~l.escape /\ ch # BACKSLASH /\ l.in_dq /\ ch = DQ
                                 THEN FALSE ELSE @,
                       !.i = @ + 1]
        ELSE IF l.in_line
        THEN [l EXCEPT !.in_line = IF ch = LF THEN FALSE ELSE @,
                       !.out = IF ch = LF THEN Append(@, LF) ELSE @,
                       !.i = @ + 1]
        ELSE IF ch = SLASH /\ nxt = SLASH
        THEN [l EXCEPT !.in_line = TRUE, !.i = @ + 2]
        ELSE IF ch = SQ
        THEN [l EXCEPT !.in_sq = TRUE, !.out = Append(@, ch), !.i = @ + 1]
        ELSE IF ch = DQ
        THEN [l EXCEPT !.in_dq = TRUE, !.out = Append(@, ch), !.i = @ + 1]
        ELSE [l EXCEPT !.out = Append(@, ch), !.i = @ + 1]

\* the loop takes one more turn
StripStep ==
    /\ ls.pc = "while"
    /\ ls.i < Len(ls.s)
    /\ ls' = WhileBody(ls)
    /\ UNCHANGED <<pipeline, ld, kv, rt, ck, im>>

\* the loop is over: return "".join(out)
StripReturn ==
    /\ ls.pc = "while"
    /\ ls.i >= Len(ls.s)
    /\ ls' = [ls EXCEPT !.pc = "done"]
    /\ UNCHANGED <<pipeline, ld, kv, rt, ck, im>>

NextStrip ==
    \/ StripStep
    \/ StripReturn

SpecStrip == LsInit /\ [][NextStrip]_vars

---------------------------------------------------------------------------
(* C18 *)

\* sub stands somewhere in text, byte for byte
Occurs(sub, text) ==
    \E o \in 0..(Len(text) - Len(sub)) : Slice(text, o, o + Len(sub)) = sub

\* the text has no string or character literal
NoQuotes(text) == \A p \in 1..Len(text) : text[p] \notin {SQ, DQ}

\* C18: when the stripper returns, every terminated block comment of the
\* input (one that begins outside every other comment; the input has no
\* string literal) stands byte for byte in the output.
C18_BlockCommentsSurvive ==
    (ls.pc = "done" /\ NoQuotes(ls.s)) =>
        \A c \in CommentsFrom(ls.s, 0) :
            c[3] \in {"block", "doc"} => Occurs(Slice(ls.s, c[1], c[2]), ls.out)

---------------------------------------------------------------------------
(* call_with_retry *)

\* the largest max_retries a call is given
MaxRetries == 5

\* the values of base_delay and max_delay a call is given, in seconds
BaseDelays == {1, 3}
MaxDelays == {2, 60}

\* what a call of func does: it returns, it raises RateLimitError, or it
\* raises another exception
FuncOutcomes == {"ok", "rate_limit", "other"}

RtInit ==
    /\ PipelineIdle
    /\ ld = LdIdle
    /\ kv = KvIdle
    /\ ls = LsIdle
    /\ rt \in {[max_retries |-> m, max_delay |-> d, attempt |-> 0, outcomes |-> <<>>,
                delay |-> b, slept |-> <<>>, pc |-> "for"] :
               m \in 0..MaxRetries, b \in BaseDelays, d \in MaxDelays}
    /\ ck = CkIdle
    /\ im = ImIdle

\* a wrapper that takes the attempt after the last one for the last one
LastAttempt_OneTooMany(attempt, max_retries) == attempt = max_retries

\* if attempt == max_retries - 1: raise
LastAttempt(attempt, max_retries) == attempt = max_retries - 1

\* one turn of "for attempt in range(max_retries)": func is called; a
\* RateLimitError is re-raised on the last attempt and slept over otherwise
\* (the sleep lasts between half of delay and delay; delay is recorded)
TryCall ==
    /\ rt.pc = "for"
    /\ rt.attempt < rt.max_retries
    /\ \E outcome \in FuncOutcomes :
          LET called == [rt EXCEPT !.outcomes = Append(@, outcome)]
          IN  rt' = CASE outcome = "ok"    -> [called EXCEPT !.pc = "returned"]
                      [] outcome = "other" -> [called EXCEPT !.pc = "raised_other"]
                      [] outcome = "rate_limit" ->
                            IF LastAttempt(rt.attempt, rt.max_retries)
                            THEN [called EXCEPT !.pc = "raised_rate_limit"]
                            ELSE [called EXCEPT
                                    !.slept = Append(@, rt.delay),
                                    !.delay = Min({rt.delay * 2, rt.max_delay}),
                                    !.attempt = @ + 1]
    /\ UNCHANGED <<pipeline, ld, kv, ls, ck, im>>

\* the range is exhausted: "return func(*args, **kwargs)" after the loop
CallAfterLoop ==
    /\ rt.pc = "for"
    /\ rt.attempt >= rt.max_retries
    /\ \E outcome \in FuncOutcomes :
          rt' = [rt EXCEPT !.outcomes = Append(@, outcome),
                           !.pc = CASE outcome = "ok" -> "returned"
                                    [] outcome = "other" -> "raised_other"
                                    [] outcome = "rate_limit" -> "raised_rate_limit"]
    /\ UNCHANGED <<pipeline, ld, kv, ls, ck, im>>

NextRetry ==
    \/ TryCall
    \/ CallAfterLoop

SpecRetry == RtInit /\ [][NextRetry]_vars

---------------------------------------------------------------------------
(* C19 *)

\* all calls of func but the last raised RateLimitError
EarlierRateLimited(outcomes) ==
    \A k \in 1..(Len(outcomes) - 1) : outcomes[k] = "rate_limit"

\* C19: with max_retries >= 1, func is called at most max_retries times; while
\* the wrapper runs, every call so far raised RateLimitError and fewer than
\* max_retries calls were made (so it ends within max_retries calls); it
\* returns on the first call that returns, lets another exception out on the
\* first call that raises one, and re-raises RateLimitError exactly when
\* max_retries calls raised it.  Every sleep is bounded by max_delay or by
\* base_delay.
C19_RetryIsBounded ==
    rt.max_retries >= 1 =>
        /\ Len(rt.outcomes) <= rt.max_retries
        /\ EarlierRateLimited(rt.outcomes)
        /\ rt.pc = "for" =>
              /\ Len(rt.outcomes) = rt.attempt
              /\ rt.attempt < rt.max_retries
              /\ \A k \in 1..Len(rt.outcomes) : rt.outcomes[k] = "rate_limit"
        /\ rt.pc = "returned" => rt.outcomes[Len(rt.outcomes)] = "ok"
        /\ rt.pc = "raised_other" => rt.outcomes[Len(rt.outcomes)] = "other"
        /\ rt.pc = "raised_rate_limit" =>
              /\ Len(rt.outcomes) = rt.max_retries
              /\ rt.outcomes[Len(rt.outcomes)] = "rate_limit"
        /\ \A k \in 1..Len(rt.slept) :
              rt.slept[k] <= Max(BaseDelays \cup {rt.max_delay})

\* every one of three or more attempts hit the rate limit: the wrapper slept
\* between them and re-raised the last error
C19_Witness ==
    /\ rt.pc = "raised_rate_limit"
    /\ rt.max_retries >= 3
    /\ Len(rt.slept) = rt.max_retries - 1

---------------------------------------------------------------------------
(* chunk_token_ids *)

\* the longest token list
MaxTokens == 6

\* the largest max_len
MaxLen == 3

\* the token list of length n: the token at offset q is q (the chunker moves
\* tokens and never looks at them)
input_ids(n) == [p \in 1..n |-> p - 1]

\* pad_id, when padding is asked for: a token that is not in the list
pad_id == -1

CkInit ==
    /\ PipelineIdle
    /\ ld = LdIdle
    /\ kv = KvIdle
    /\ ls = LsIdle
    /\ rt = RtIdle
    /\ ck \in {[n |-> n, max_len |-> m, stride |-> s, pad |-> b, start |-> 0,
                chunks |-> <<>>, pc |-> "entry"] :
               n \in 0..MaxTokens, m \in 0..MaxLen, s \in (-1)..MaxLen, b \in BOOLEAN}
    /\ im = ImIdle

\* the two checks that raise ValueError
ValidArgs(max_len, stride) == max_len > 0 /\ stride >= 0 /\ stride < max_len

\* the first next() on the generator: the checks, then the loop is entered
ChunkEnter ==
    /\ ck.pc = "entry"
    /\ ck' = [ck EXCEPT !.pc = IF ValidArgs(ck.max_len, ck.stride) THEN "for"
                               ELSE "raised"]
    /\ UNCHANGED <<pipeline, ld, kv, ls, rt, im>>

\* a generator that goes on after the chunk that reaches the end
BreakAfter_Never(end, n) == FALSE

\* if end == n: break
BreakAfter(end, n) == end = n

\* ids + [pad_id] * (max_len - len(ids)), when pad_to_full and pad_id are given
Padded(ids, max_len, pad) ==
    IF pad /\ Len(ids) < max_len
    THEN ids \o [k \in 1..(max_len - Len(ids)) |-> pad_id]
    ELSE ids

\* one turn of "for start in range(0, n, step)" up to its yield: the chunk
\* goes to the consumer and the generator is suspended at the yield
ChunkYield ==
    /\ ck.pc = "for"
    /\ ck.start < ck.n
    /\ LET end == Min({ck.start + ck.max_len, ck.n})
           ids == Padded(Slice(input_ids(ck.n), ck.start, end), ck.max_len, ck.pad)
       IN  ck' = [ck EXCEPT !.chunks = Append(@, ids), !.pc = "yielded"]
    /\ UNCHANGED <<pipeline, ld, kv, ls, rt, im>>

\* the consumer calls next() again: the turn goes on after the yield with
\* "if end == n: break", and otherwise range() gives the next start
ChunkResume ==
    /\ ck.pc = "yielded"
    /\ LET end == Min({ck.start + ck.max_len, ck.n})
       IN  ck' = [ck EXCEPT !.pc = IF BreakAfter(end, ck.n) THEN "done" ELSE "for",
                            !.start = IF BreakAfter(end, ck.n) THEN @
                                      ELSE @ + (ck.max_len - ck.stride)]
    /\ UNCHANGED <<pipeline, ld, kv, ls, rt, im>>

\* the range is exhausted: the generator stops
ChunkExhausted ==
    /\ ck.pc = "for"
    /\ ck.start >= ck.n
    /\ ck' = [ck EXCEPT !.pc = "done"]
    /\ UNCHANGED <<pipeline, ld, kv, ls, rt, im>>

NextChunk ==
    \/ ChunkEnter
    \/ ChunkYield
    \/ ChunkResume
    \/ ChunkExhausted

SpecChunk == CkInit /\ [][NextChunk]_vars

---------------------------------------------------------------------------
(* C20 *)

\* where chunk number k (0-based) starts and ends according to C20
ChunkStart(k) == k * (ck.max_len - ck.stride)
ChunkEnd(k) == Min({ChunkStart(k) + ck.max_len, ck.n})

\* C20: with valid arguments and without padding, nothing is raised; chunk k
\* is input_ids[k*step : min(k*step + max_len, n)] and has at most max_len
\* tokens; only the last chunk yielded can reach n; the loop variable stays
\* below n + step (each turn adds step >= 1, so the generator ends); and when
\* it has ended, an empty list gave no chunk, and otherwise the last chunk
\* ends at n and every position lies in a chunk.
C20_ChunksCoverTheInput ==
    (ValidArgs(ck.max_len, ck.stride) /\ ~ck.pad /\ ck.pc # "entry") =>
        /\ ck.pc # "raised"
        /\ \A k \in 0..(Len(ck.chunks) - 1) :
              /\ ck.chunks[k + 1] = Slice(input_ids(ck.n), ChunkStart(k), ChunkEnd(k))
              /\ Len(ck.chunks[k + 1]) <= ck.max_len
              /\ k < Len(ck.chunks) - 1 => ChunkEnd(k) < ck.n
        /\ ck.pc = "yielded" => ck.start = ChunkStart(Len(ck.chunks) - 1)
        /\ ck.pc = "for" =>
              /\ ck.start = ChunkStart(Len(ck.chunks))
              /\ \A k \in 0..(Len(ck.chunks) - 1) : ChunkEnd(k) < ck.n
        /\ ck.pc = "done" =>
              /\ ck.n = 0 => ck.chunks = <<>>
              /\ ck.n > 0 =>
                    /\ ck.chunks # <<>>
                    /\ ChunkEnd(Len(ck.chunks) - 1) = ck.n
              /\ \A p \in 0..(ck.n - 1) :
                    \E k \in 0..(Len(ck.chunks) - 1) :
                        ChunkStart(k) <= p /\ p < ChunkEnd(k)

\* a run that ended after three or more overlapping chunks, the last of them
\* shorter than max_len
C20_Witness ==
    /\ ck.pc = "done"
    /\ ~ck.pad
    /\ ck.stride >= 1
    /\ Len(ck.chunks) >= 3
    /\ Len(ck.chunks[Len(ck.chunks)]) < ck.max_len

---------------------------------------------------------------------------
(* split_import_blocks and minimize_imports *)

\* the most lines a module has
MaxModuleLines == 4

\* A line of a module, by what the tests on line.lstrip() make of it:
\*   "import"  it starts with "import "
\*   "blank"   it is empty
\*   "dash"    it starts with "--"
\*   "code"    anything else
\* no is the number of the line in the input, which tells equal lines apart
LineKinds == {"import", "blank", "dash", "code"}

ModuleLine(kind, no) == [kind |-> kind, no |-> no]

\* code.splitlines() of the modules handed in
Modules ==
    UNION {{[k \in 1..n |-> ModuleLine(kinds[k], k)] : kinds \in [1..n -> LineKinds]} :
             n \in 0..MaxModuleLines}

ImInit ==
    /\ PipelineIdle
    /\ ld = LdIdle
    /\ kv = KvIdle
    /\ ls = LsIdle
    /\ rt = RtIdle
    /\ ck = CkIdle
    /\ im \in {[ImIdle EXCEPT !.lines = m, !.pc = "split"] : m \in Modules}

\* the body of "for line in lines" on the locals s
SplitLine(s, line) ==
    IF line.kind = "import"
    THEN [s EXCEPT !.in_imports = TRUE, !.seen_import = TRUE,
                   !.imports = Append(@, line)]
    ELSE IF s.in_imports /\ line.kind \in {"blank", "dash"}
    THEN [s EXCEPT !.imports = Append(@, line)]
    ELSE IF s.in_imports /\ s.seen_import
    THEN [s EXCEPT !.body = Append(@, line)]
    ELSE [s EXCEPT !.header = Append(@, line)]

\* split_import_blocks: one turn of the loop over the lines
SplitStep ==
    /\ im.pc = "split"
    /\ im.k < Len(im.lines)
    /\ im' = [SplitLine(im, im.lines[im.k + 1]) EXCEPT !.k = im.k + 1]
    /\ UNCHANGED <<pipeline, ld, kv, ls, rt, ck>>

\* split_import_blocks returns to minimize_imports, which returns the code as
\* it is when there is no import block
SplitReturn ==
    /\ im.pc = "split"
    /\ im.k = Len(im.lines)
    /\ im' = IF ~im.seen_import
             THEN [im EXCEPT !.header = im.lines, !.imports = <<>>, !.body = <<>>,
                             !.final = im.lines, !.pc = "done"]
             ELSE [im EXCEPT !.pc = "minimize"]
    /\ UNCHANGED <<pipeline, ld, kv, ls, rt, ck>>

\* what check_code_with_interpreter can answer for the line at idx: blank and
\* comment lines are skipped without asking, so nothing is ever removed there
InterpreterAnswers(line) == IF line.kind = "import" THEN BOOLEAN ELSE {FALSE}

\* minimize_imports: one turn of the greedy loop; the interpreter accepts the
\* candidate without the import (ok) or does not
TryImport ==
    /\ im.pc = "minimize"
    /\ im.idx < Len(im.imports)
    /\ \E ok \in InterpreterAnswers(im.imports[im.idx + 1]) :
          im' = IF ok
                THEN [im EXCEPT !.imports[im.idx + 1] = ModuleLine("blank", 0),
                                !.removed = @ + 1,
                                !.idx = @ + 1]
                ELSE [im EXCEPT !.idx = @ + 1]
    /\ UNCHANGED <<pipeline, ld, kv, ls, rt, ck>>

\* final_code = "\n".join(header + imports + body) + "\n"
MinimizeReturn ==
    /\ im.pc = "minimize"
    /\ im.idx = Len(im.imports)
    /\ im' = [im EXCEPT !.final = im.header \o im.imports \o im.body, !.pc = "done"]
    /\ UNCHANGED <<pipeline, ld, kv, ls, rt, ck>>

NextImports ==
    \/ SplitStep
    \/ SplitReturn
    \/ TryImport
    \/ MinimizeReturn

SpecImports == ImInit /\ [][NextImports]_vars

---------------------------------------------------------------------------
(* C21 *)

\* C21: once split_import_blocks has returned and before any import is
\* removed, header + imports + body is the list of the input's lines in their
\* order; and when minimize_imports returns without having removed an import,
\* the lines of the code it returns are those of the input in their order.
C21_SplitKeepsTheOrderOfLines ==
    /\ (im.pc \in {"minimize", "done"} /\ im.removed = 0) =>
          im.header \o im.imports \o im.body = im.lines
    /\ (im.pc = "done" /\ im.removed = 0) => im.final = im.lines

---------------------------------------------------------------------------
(* C22 *)

\* the span the loop is at has its decision in the index
SpanCached == RecordOf(content, spans, i).sha1 \in DOMAIN decisions

\* the events that flush the batch while span number i is handled
CapReached == ~SpanCached /\ Len(pending) + 1 >= llm_buffer_size
CachedMetWhilePending == SpanCached /\ pending # <<>>

\* a step of the loop over the spans: the oracle is called, once, exactly when
\* the cap is reached or a cached span meets a pending batch; a flush that
\* does not raise empties the batch; without a flush an uncached span is
\* buffered and a cached one leaves the (empty) batch as it is
C22_LoopStep ==
    (pc = "loop" /\ i < Len(spans)) =>
        /\ Len(requests') = Len(requests) + (IF CapReached \/ CachedMetWhilePending
                                              THEN 1 ELSE 0)
        /\ (CapReached \/ CachedMetWhilePending) /\ pc' # "raised" => pending' = <<>>
        /\ ~CapReached /\ ~SpanCached =>
              pending' = Append(pending, RecordOf(content, spans, i))
        /\ ~CachedMetWhilePending /\ SpanCached => pending' = <<>>

\* the step at the end of the document: the oracle is called, once, exactly
\* when the batch is not empty
C22_EndStep ==
    (pc = "loop" /\ i = Len(spans)) =>
        /\ Len(requests') = Len(requests) + (IF pending # <<>> THEN 1 ELSE 0)
        /\ pc' # "raised" => pending' = <<>>

\* C22: the batch is flushed when and only when the cap is reached, a cached
\* span is met while it is not empty, or the document ends; each flush calls
\* the oracle once; the batch holds fewer than cap records between two spans
\* (at most cap at any moment) and none when the function has returned.
C22_FlushOnTheThreeEventsOnly ==
    /\ [](Len(pending) <= llm_buffer_size)
    /\ [](pc = "loop" => Len(pending) < llm_buffer_size)
    /\ [](pc = "done" => pending = <<>>)
    /\ [][C22_LoopStep /\ C22_EndStep]_vars

\* a call returned that flushed three times: a full batch of two, a batch of
\* one ahead of a cached span, and a batch of one at the end of the document
C22_Witness ==
    /\ pc = "done"
    /\ run = 1
    /\ content = DocFive
    /\ llm_buffer_size = 2
    /\ Len(requests) = 3
    /\ Len(requests[1]) = 2
    /\ Len(requests[2]) = 1
    /\ Len(requests[3]) = 1

---------------------------------------------------------------------------
(* C23 *)

Range(seq) == {seq[k] : k \in 1..Len(seq)}

\* the regex matches of the text, in ascending start order
Candidates(text) == SortByStart(BLOCK_RE_CRY(text, 0), LINE_RE_CRY(text, 0))

\* what overlap resolution keeps of them
Kept(text) == NonOverlap(Candidates(text), -1)

\* a line span that the coalescing step made of several matches
CoalescedRun(text, sp) ==
    sp[3] = "line" /\ \E p \in sp[1]..(sp[2] - 1) : text[p + 1] = LF

\* _collect_spans has just returned
Detected == pc = "loop" /\ i = 0

\* C23: when the detector returns, what overlap resolution kept are candidates
\* as they were matched, never a part of one; a candidate is kept exactly when
\* no kept candidate that starts before it ends after its start; and every
\* returned span that is not a coalesced run is one regex match.
C23_OverlapDiscardsWholeCandidates ==
    Detected =>
        /\ Range(Kept(content)) \subseteq Range(Candidates(content))
        /\ \A c \in Range(Candidates(content)) :
              c \in Range(Kept(content))
                <=> ~\E d \in Range(Kept(content)) : d[1] < c[1] /\ c[1] < d[2]
        /\ \A k \in 1..Len(spans) :
              ~CoalescedRun(content, spans[k]) => spans[k] \in Range(Candidates(content))

\* a document with a candidate that starts inside a kept span and ends after it
C23_Witness ==
    /\ Detected
    /\ spans # <<>>
    /\ \E c \in Range(Candidates(content)) :
          \E k \in 1..Len(spans) :
              spans[k][1] < c[1] /\ c[1] < spans[k][2] /\ spans[k][2] < c[2]

---------------------------------------------------------------------------
(* C24 *)

\* exactly one line break, LF or CRLF, then spaces and tabs only
OneBreakThenIndent(between) ==
    \E b \in {<<LF>>, <<CR, LF>>} :
        /\ Len(between) >= Len(b)
        /\ SubSeq(between, 1, Len(b)) = b
        /\ \A p \in (Len(b) + 1)..Len(between) : between[p] \in {SP, TAB}

\* the kept candidate c lies in the span sp
Within(c, sp) == sp[1] <= c[1] /\ c[2] <= sp[2]

\* C24: when the detector returns, two consecutive kept line matches are in
\* one span exactly when the text between them is one line break followed by
\* spaces or tabs only; every span starts at the start of a kept match and
\* ends at the end of one; a block span is a kept match as it was; and a span
\* that holds more than one kept match holds line matches only.
C24_RunsAreStackedLineComments ==
    Detected =>
        LET kept == Kept(content)
        IN  /\ \A j \in 1..(Len(kept) - 1) :
                  (kept[j][3] = "line" /\ kept[j + 1][3] = "line") =>
                      ((\E k \in 1..Len(spans) :
                           Within(kept[j], spans[k]) /\ Within(kept[j + 1], spans[k]))
                       <=> OneBreakThenIndent(Slice(content, kept[j][2], kept[j + 1][1])))
            /\ \A k \in 1..Len(spans) :
                  /\ \E c \in Range(kept) : c[1] = spans[k][1]
                  /\ \E c \in Range(kept) : c[2] = spans[k][2]
                  /\ spans[k][3] = "block" => spans[k] \in Range(kept)
                  /\ \A c \in Range(kept) :
                        (Within(c, spans[k]) /\ c # spans[k]) =>
                            (c[3] = "line" /\ spans[k][3] = "line")
            /\ \A c \in Range(kept) : \E k \in 1..Len(spans) : Within(c, spans[k])

\* the text between kept match number j and the next one
Between(text, kept, j) == Slice(text, kept[j][2], kept[j + 1][1])

\* C24 witness: the detector returned for a document in which two line
\* comments separated by a line break, a space and a tab are one span; a line
\* comment is followed after one line break and a tab by a block comment and
\* after that by a line comment, in three spans; and line comments separated
\* by an empty line, by a line holding a space, and by a line of code are
\* spans of their own
C24_Witness ==
    /\ Detected
    /\ LET kept == Kept(content)
           Pair(j, a, b) == j < Len(kept) /\ kept[j][3] = a /\ kept[j + 1][3] = b
           Together(j) == \E k \in 1..Len(spans) :
                             Within(kept[j], spans[k]) /\ Within(kept[j + 1], spans[k])
       IN  /\ \E j \in 1..Len(kept) :
                 /\ Pair(j, "line", "line")
                 /\ Between(content, kept, j) = <<LF, SP, TAB>>
                 /\ Together(j)
           /\ \E j \in 1..Len(kept) :
                 /\ Pair(j, "line", "block")
                 /\ Between(content, kept, j) = <<LF, TAB>>
                 /\ ~Together(j)
                 /\ Pair(j + 1, "block", "line")
                 /\ Between(content, kept, j + 1) = <<LF>>
                 /\ ~Together(j + 1)
           /\ \A between \in {<<LF, LF>>, <<LF, SP, LF>>, <<LF, "x", LF>>} :
                 \E j \in 1..Len(kept) :
                     /\ Pair(j, "line", "line")
                     /\ Between(content, kept, j) = between
                     /\ ~Together(j)

---------------------------------------------------------------------------
(* C25 *)

\* the index rebuilt from the lines holds, for each fingerprint of a
\* well-formed line, the value of the last such line, and nothing else
LastRecordWins(lines, index) ==
    /\ DOMAIN index = {lines[k].sha1 : k \in {j \in 1..Len(lines) : lines[j].kind = "record"}}
    /\ \A h \in DOMAIN index : index[h] = lines[Max(RecordsOf(lines, h))].keep

\* C25: at every moment of a run, the index rebuilt from the cache file holds
\* the last value of each fingerprint, replaying the log twice gives the same
\* index, and the rebuilt index equals the in-memory index of the process
\* that writes the file.
C25_RebuiltIndexEqualsMemory ==
    LET rebuilt == _read_decision_cache(file)
    IN  /\ LastRecordWins(file, rebuilt)
        /\ _read_decision_cache(file \o file) = rebuilt
        /\ decisions = rebuilt

---------------------------------------------------------------------------
(* C26 *)

\* C26: the guard that skips a span starting before the cursor never fires;
\* and when the call returns there is one comment record per span, in order,
\* whose text is content[start:end] of its span and whose fingerprint is the
\* hash of that text.
C26_OneRecordPerSpan ==
    /\ (pc = "loop" /\ i < Len(spans)) => spans[i + 1][1] >= idx
    /\ pc = "done" =>
          /\ Len(comments) = Len(spans)
          /\ \A k \in 1..Len(spans) :
                /\ comments[k].comment = Slice(content, spans[k][1], spans[k][2])
                /\ comments[k].sha1 = _sha1(Slice(content, spans[k][1], spans[k][2]))

\* a call returned on a document with three or more spans, the first of them
\* dropped (the cursor moved over its line break and the blank lines after it)
C26_Witness ==
    /\ pc = "done"
    /\ Len(spans) >= 3
    /\ Len(comments) = Len(spans)
    /\ ~comments[1].keep

---------------------------------------------------------------------------
(* C27 *)

\* C27: the snippet of every comment record is the context computed for the
\* span of that record, the one sent to the oracle with it: the text from the
\* end of the comment to the start of the next one, capped and trimmed.
C27_SnippetIsTheRecordsOwnContext ==
    \A k \in 1..Len(comments) :
        comments[k].snippet = RecordOf(content, spans, k - 1).ctx

---------------------------------------------------------------------------
(* C28 *)

\* the doc comments of a text: "/**", any text, "*/"
DocComments(text) ==
    {c \in CommentsFrom(text, 0) : c[3] = "doc" /\ c[2] - c[1] >= 5}

\* the offset p lies strictly inside the comment c
StrictlyInside(p, c) == c[1] < p /\ p < c[2]

\* C28: no span starts or ends strictly inside a doc comment, and when the
\* call returns, whatever was decided, every doc comment of the input stands
\* byte for byte in the rewritten content.
C28_DocCommentsAreLeftAlone ==
    \A c \in DocComments(content) :
        /\ \A k \in 1..Len(spans) :
              ~StrictlyInside(spans[k][1], c) /\ ~StrictlyInside(spans[k][2], c)
        /\ pc = "done" => Occurs(Slice(content, c[1], c[2]), new_content)

---------------------------------------------------------------------------
(* C29 *)

\* the dropped standalone spans with spaces or tabs before them on their line
DroppedIndented ==
    {k \in DroppedStandalone :
        /\ LineStart(content, spans[k][1]) < spans[k][1]
        /\ \A q \in LineStart(content, spans[k][1])..(spans[k][1] - 1) :
              content[q + 1] \in {SP, TAB}}

\* the offsets of the whitespace that precedes span k on its line
Indentation(k) == LineStart(content, spans[k][1])..(spans[k][1] - 1)

\* C29: when the call returns, the whitespace that precedes a dropped
\* standalone comment on its line is gone from the output with the comment and
\* its line break: the output is the input without what every drop removes and
\* without those indentations, so that the line after the comment begins in the
\* output as it does in the input.
C29_IndentationGoesWithTheComment ==
    Finished =>
        new_content =
            WithoutLeadingLFs(
                Without(content,
                        Excised \cup UNION {Indentation(k) : k \in DroppedIndented},
                        0))

---------------------------------------------------------------------------
(* C30 *)

\* C30: in every state of a call, each comment record carries the value the
\* decision index holds for its fingerprint, so all records that share a
\* fingerprint carry the same keep value, and when the call returns it is the
\* value of the index for that fingerprint; identical texts in one batch that
\* the oracle answers differently, or only in part, are no exception.
C30_TwinsShareTheIndexedDecision ==
    /\ \A k \in 1..Len(comments) :
          /\ comments[k].sha1 \in DOMAIN decisions
          /\ comments[k].keep = decisions[comments[k].sha1]
    /\ \A j, k \in 1..Len(comments) :
          comments[j].sha1 = comments[k].sha1 => comments[j].keep = comments[k].keep

\* a call returned on the document of two identical comments: they went to the
\* oracle in one batch and it answered the first drop and the second keep
C30_Witness ==
    /\ pc = "done"
    /\ content = DocTwins
    /\ Len(comments) = 2
    /\ requests # <<>>
    /\ Len(requests[Len(requests)]) = 2
    /\ <<comments[1].sha1, FALSE, "oracle">> \in writes
    /\ <<comments[1].sha1, TRUE, "oracle">> \in writes
    /\ comments[1].keep /\ comments[2].keep

====
